---- MODULE Spec2Model ----
(***************************************************************************)
(* Model of the navigation core of the breeze browser: the history stack   *)
(* (src/src/history.rs), Breeze::navigate and the per-frame loop           *)
(* Breeze::update with render_browser (src/src/main.rs), the status        *)
(* decoding of src/src/networking.rs and the content handlers' page        *)
(* models (src/src/handlers).                                              *)
(*                                                                         *)
(* Strings are sequences of tokens (<<"gemini", "://", "h", "/a">>), so    *)
(* that formatting a Url and parsing it back are two different operators.  *)
(* An Option is a sequence of length 0 (None) or 1 (Some(x)).              *)
(***************************************************************************)
EXTENDS Integers, Sequences, FiniteSets, TLC

\* ------------------------------------------------------------------ bounds
MaxHist == 2        \* the history holds at most MaxHist entries
MaxWorkers == 2     \* "net" threads alive at once (one tracked, the rest detached)

\* ----------------------------------------------------------------- options
None == <<>>
Some(x) == <<x>>

\* -------------------------------------------------------------------- Url
\* url::Url as the code reads it: scheme(), host_str(), port(), path(),
\* query().  The schemes of this program have no default port of their own,
\* so port() is the port the URL string names, if any.
MkUrl(scheme, host, port, path, query) ==
    [scheme |-> scheme, host |-> host, port |-> port, path |-> path, query |-> query]

\* The port a ":port" token of a URL string names, and the token of a port.

PortOfToken(tok) == IF tok = ":7070" THEN 7070 ELSE 0

TokenOfPort(port) == IF port = 7070 THEN ":7070" ELSE ":0"

\* Url::to_string / Display.
UrlToString(u) ==
    <<u.scheme, "://", u.host>>
        \o (IF u.port = None THEN <<>> ELSE <<TokenOfPort(u.port[1])>>)
        \o u.path
        \o (IF u.query = None THEN <<>> ELSE <<"?">> \o u.query[1])

\* Position of the first "?" token of a string, 0 when there is none.
FirstQuestionMark(str) ==
    IF \E i \in 1..Len(str) : str[i] = "?"
    THEN CHOOSE i \in 1..Len(str) : str[i] = "?" /\ \A j \in 1..(i - 1) : str[j] # "?"
    ELSE 0

\* Url::from_str on a string of the form scheme :// host [:port] path [? query].
UrlFromStr(str) ==
    LET has_port == Len(str) >= 4 /\ str[4] \in {":7070"}
        rest == SubSeq(str, IF has_port THEN 5 ELSE 4, Len(str))
        q == FirstQuestionMark(rest)
    IN MkUrl(str[1], str[3],
             IF has_port THEN Some(PortOfToken(str[4])) ELSE None,
             IF q = 0 THEN rest ELSE SubSeq(rest, 1, q - 1),
             IF q = 0 THEN None ELSE Some(SubSeq(rest, q + 1, Len(rest))))

\* --------------------------------------------------------------- Protocol
\* Protocol::from_str: the text before the first ':' selects the protocol.
ProtocolFromStr(scheme) ==
    CASE scheme = "finger" -> "Finger"
      [] scheme = "gemini" -> "Gemini"
      [] scheme = "gopher" -> "Gopher(false)"
      [] scheme = "gophers" -> "Gopher(true)"
      [] scheme = "guppy" -> "Guppy"
      [] scheme = "nex" -> "Nex"
      [] scheme = "scorpion" -> "Scorpion"
      [] scheme = "scroll" -> "Scroll"
      [] scheme = "spartan" -> "Spartan"
      [] scheme = "text" -> "TextProtocol"
      [] OTHER -> "Unknown"

\* Protocol::from_url.
ProtocolFromUrl(u) == ProtocolFromStr(u.scheme)

\* The handler a protocol dispatches to, in ContentHandlers::parse_content
\* and in render_browser (both use the same match).
HandlerOf(protocol) ==
    CASE protocol = "Finger" -> "finger"
      [] protocol \in {"Gemini", "Spartan", "Guppy", "Scroll"} -> "gemtext"
      [] protocol \in {"Gopher(false)", "Gopher(true)"} -> "gopher"
      [] protocol = "Nex" -> "nex"
      [] protocol = "Scorpion" -> "scorpion"
      [] OTHER -> "plaintext"

Handlers == {"finger", "gemtext", "gopher", "nex", "scorpion", "plaintext"}

\* ---------------------------------------------------------------- history
HistoryEntry(u, protocol) == [url |-> u, protocol |-> protocol]

\* One record of the log of history calls made during a loop iteration.
LogEntry(op, u, ret, pre, post) ==
    [op |-> op, url |-> u, ret |-> ret,
     pre_history |-> pre.history, pre_index |-> pre.index,
     post_history |-> post.history, post_index |-> post.index]

Logged(post, pre, op, u, ret) ==
    [post EXCEPT !.hlog = Append(@, LogEntry(op, u, ret, pre, post))]

\* A truncate that drops nothing.
truncate_keeps_all(h, len) == h

\* Vec::truncate(len).
truncate(h, len) == IF len < Len(h) THEN SubSeq(h, 1, len) ELSE h

\* The duplicate test made against the first entry instead of the last.
first_is_none_or_differs(h, u) == h = <<>> \/ h[1].url # u

\* history.last().is_none_or(|e| e.url != url)
last_is_none_or_differs(h, u) == h = <<>> \/ h[Len(h)].url # u

\* An add_entry that pushes only onto a history that has a last entry.
add_entry_is_some_and(s, u, protocol) ==
    LET h1 == IF s.index + 1 < Len(s.history)
              THEN truncate(s.history, s.index + 1) ELSE s.history
        push == h1 # <<>> /\ h1[Len(h1)].url # u
        h2 == IF push THEN Append(h1, HistoryEntry(u, protocol)) ELSE h1
        i2 == IF push THEN Len(h2) - 1 ELSE s.index
    IN Logged([s EXCEPT !.history = h2, !.index = i2,
                        !.overflow = @ \/ Len(h2) > MaxHist],
              s, "add_entry", Some(u), None)

\* history::add_entry.
add_entry(s, u, protocol) ==
    LET h1 == IF s.index + 1 < Len(s.history)
              THEN truncate(s.history, s.index + 1) ELSE s.history
        push == last_is_none_or_differs(h1, u)
        h2 == IF push THEN Append(h1, HistoryEntry(u, protocol)) ELSE h1
        i2 == IF push THEN Len(h2) - 1 ELSE s.index
    IN Logged([s EXCEPT !.history = h2, !.index = i2,
                        !.overflow = @ \/ Len(h2) > MaxHist],
              s, "add_entry", Some(u), None)

\* history::remove_latest_entry: pop().unwrap() panics on an empty history.
remove_latest_entry(s) ==
    IF s.history = <<>>
    THEN Logged([s EXCEPT !.crashed = TRUE], s, "remove_latest_entry", None, None)
    ELSE Logged([s EXCEPT !.history = SubSeq(@, 1, Len(@) - 1)],
                s, "remove_latest_entry", None, Some(s.history[Len(s.history)]))

\* Vec::get(i).cloned() with a 0-based index.
get(h, i) == IF i < Len(h) THEN Some(h[i + 1]) ELSE None

\* history::back: the state after the call; back_ret is what it returns.
back_ret(s) == IF s.index > 0 THEN get(s.history, s.index - 1) ELSE None

back(s) ==
    Logged(IF s.index > 0 THEN [s EXCEPT !.index = @ - 1] ELSE s,
           s, "back", None, back_ret(s))

\* history::forward.
forward_ret(s) ==
    IF s.index + 1 < Len(s.history) THEN get(s.history, s.index + 1) ELSE None

forward(s) ==
    Logged(IF s.index + 1 < Len(s.history) THEN [s EXCEPT !.index = @ + 1] ELSE s,
           s, "forward", None, forward_ret(s))

\* history::can_go_forward / can_go_back.
can_go_forward(s) == s.index + 1 < Len(s.history)

can_go_back(s) == s.index > 0

\* ------------------------------------------------------------------ text
\* str::split_once(sep): None, or Some(<<before, after>>) at the first sep.
split_once(str, sep) ==
    IF \E i \in 1..Len(str) : str[i] = sep
    THEN LET i == CHOOSE k \in 1..Len(str) :
                      str[k] = sep /\ \A j \in 1..(k - 1) : str[j] # sep
         IN Some(<<SubSeq(str, 1, i - 1), SubSeq(str, i + 1, Len(str))>>)
    ELSE None

\* str::split(sep): the pieces between the separators, at least one.
RECURSIVE split(_, _)
split(str, sep) ==
    LET parts == split_once(str, sep)
    IN IF parts = None THEN <<str>>
       ELSE <<parts[1][1]>> \o split(parts[1][2], sep)

\* str::lines and BufRead::lines: the pieces that "\n" ends, each without the
\* "\r" before its "\n", and what follows the last "\n" when it is not empty.
RECURSIVE lines(_)
lines(str) ==
    LET parts == split_once(str, "\n")
    IN IF parts = None THEN (IF str = <<>> THEN <<>> ELSE <<str>>)
       ELSE LET line == parts[1][1]
                n == Len(line)
            IN <<IF n > 0 /\ line[n] = "\r" THEN SubSeq(line, 1, n - 1) ELSE line>>
                   \o lines(parts[1][2])

\* str::starts_with("/"): the first token is one that begins with '/'.
starts_with_slash(str) == Len(str) > 0 /\ str[1] \in {"/", "/a", "/b"}

\* str::ends_with(".txt").
ends_with_txt(str) == Len(str) > 0 /\ str[Len(str)] = ".txt"

\* A host that Url::join rejects (an unterminated IPv6 literal).
MalformedHost == "["

\* Url::join(target) is an Err.
join_is_err(target) == \E i \in 1..Len(target) : target[i] = MalformedHost

\* The path percent-encode set applied to one token: a '?' does not start a
\* query in a path setter, it is encoded.
PercentEncodePath(tok) == IF tok = "?" THEN "%3F" ELSE tok

\* Url::set_path(target): the path is replaced by the encoded target; scheme,
\* host, port and query stay.
set_path(u, target) ==
    [u EXCEPT !.path = [i \in 1..Len(target) |-> PercentEncodePath(target[i])]]

\* Url::join(path) for a reference that starts with '/': scheme and host
\* stay, the path is the reference's, the query is dropped.
join(u, path) == [u EXCEPT !.path = path, !.query = None]

\* GemtextLine::from_str: the path of a link line ("=>", then the first
\* whitespace-separated token), None for a line that is no link.
link_path(line) == IF line = "=> /a a" THEN Some(<<"/a">>) ELSE None

\* ---------------------------------------------------------------- statuses
MkStatus(family, variant, data, sensitive) ==
    [family |-> family, variant |-> variant, data |-> data, sensitive |-> sensitive]

\* The worker panicked (unwrap on None or Err, unreachable!).
DecodePanic == MkStatus("panic", "panic", <<>>, FALSE)

\* A Gemini decoder whose success range stops at 28.
GeminiStatusFrom_success_to_28(line) ==
    LET parts == split_once(line, " ")
    IN IF parts = None THEN DecodePanic
       ELSE LET code == parts[1][1]
                data == parts[1][2]
                G(v, d, sens) == MkStatus("Gemini", v, d, sens)
            IN CASE code = <<"10">> -> G("InputExpected", data, FALSE)
                 [] code = <<"11">> -> G("InputExpected", data, TRUE)
                 [] code \in {<<"20">>, <<"21">>, <<"22">>, <<"23">>, <<"24">>,
                              <<"25">>, <<"26">>, <<"27">>, <<"28">>}
                        -> G("Success", data, FALSE)
                 [] code = <<"30">> -> G("TemporaryRedirect", data, FALSE)
                 [] code = <<"31">> -> G("PermanentRedirect", data, FALSE)
                 [] code = <<"40">> -> G("TemporaryFailure", data, FALSE)
                 [] code = <<"41">> -> G("ServerUnavailable", data, FALSE)
                 [] code = <<"42">> -> G("CGIError", data, FALSE)
                 [] code = <<"43">> -> G("ProxyError", data, FALSE)
                 [] code = <<"44">> -> G("SlowDown", data, FALSE)
                 [] code = <<"50">> -> G("PermanentFailure", data, FALSE)
                 [] code = <<"51">> -> G("NotFound", data, FALSE)
                 [] code = <<"52">> -> G("Gone", data, FALSE)
                 [] code = <<"53">> -> G("ProxyRequestRefused", data, FALSE)
                 [] code = <<"59">> -> G("BadRequest", data, FALSE)
                 [] code = <<"60">> -> G("RequiresClientCertificate", <<>>, FALSE)
                 [] code = <<"61">> -> G("CertificateNotAuthorized", <<>>, FALSE)
                 [] code = <<"62">> -> G("CertificateNotValid", <<>>, FALSE)
                 [] OTHER -> DecodePanic

\* impl From<&str> for GeminiStatus.
GeminiStatusFrom(line) ==
    LET parts == split_once(line, " ")
    IN IF parts = None THEN DecodePanic
       ELSE LET code == parts[1][1]
                data == parts[1][2]
                G(v, d, sens) == MkStatus("Gemini", v, d, sens)
            IN CASE code = <<"10">> -> G("InputExpected", data, FALSE)
                 [] code = <<"11">> -> G("InputExpected", data, TRUE)
                 [] code \in {<<"20">>, <<"21">>, <<"22">>, <<"23">>, <<"24">>,
                              <<"25">>, <<"26">>, <<"27">>, <<"28">>, <<"29">>}
                        -> G("Success", data, FALSE)
                 [] code = <<"30">> -> G("TemporaryRedirect", data, FALSE)
                 [] code = <<"31">> -> G("PermanentRedirect", data, FALSE)
                 [] code = <<"40">> -> G("TemporaryFailure", data, FALSE)
                 [] code = <<"41">> -> G("ServerUnavailable", data, FALSE)
                 [] code = <<"42">> -> G("CGIError", data, FALSE)
                 [] code = <<"43">> -> G("ProxyError", data, FALSE)
                 [] code = <<"44">> -> G("SlowDown", data, FALSE)
                 [] code = <<"50">> -> G("PermanentFailure", data, FALSE)
                 [] code = <<"51">> -> G("NotFound", data, FALSE)
                 [] code = <<"52">> -> G("Gone", data, FALSE)
                 [] code = <<"53">> -> G("ProxyRequestRefused", data, FALSE)
                 [] code = <<"59">> -> G("BadRequest", data, FALSE)
                 [] code = <<"60">> -> G("RequiresClientCertificate", <<>>, FALSE)
                 [] code = <<"61">> -> G("CertificateNotAuthorized", <<>>, FALSE)
                 [] code = <<"62">> -> G("CertificateNotValid", <<>>, FALSE)
                 [] OTHER -> DecodePanic

\* impl From<&str> for TextProtocolStatus.
TextProtocolStatusFrom(line) ==
    LET parts == split_once(line, " ")
    IN IF parts = None THEN DecodePanic
       ELSE LET code == parts[1][1]
                data == parts[1][2]
            IN CASE code = <<"20">> -> MkStatus("TextProtocol", "OK", data, FALSE)
                 [] code = <<"30">> -> MkStatus("TextProtocol", "Redirect", data, FALSE)
                 [] code = <<"40">> -> MkStatus("TextProtocol", "NOK", data, FALSE)
                 [] OTHER -> DecodePanic

\* impl From<&str> for SpartanStatus.
SpartanStatusFrom(line) ==
    LET parts == split_once(line, " ")
    IN IF parts = None THEN DecodePanic
       ELSE LET code == parts[1][1]
                data == parts[1][2]
            IN CASE code = <<"2">> -> MkStatus("Spartan", "Success", data, FALSE)
                 [] code = <<"3">> -> MkStatus("Spartan", "Redirect", data, FALSE)
                 [] code = <<"4">> -> MkStatus("Spartan", "ClientError", data, FALSE)
                 [] code = <<"5">> -> MkStatus("Spartan", "ServerError", data, FALSE)
                 [] OTHER -> DecodePanic

\* impl From<&str> for ScorpionStatus: only the redirects and 50, 51, 52
\* carry the text after the code.
ScorpionStatusFrom(line) ==
    LET parts == split_once(line, " ")
    IN IF parts = None THEN DecodePanic
       ELSE LET code == parts[1][1]
                data == parts[1][2]
                S(v) == MkStatus("Scorpion", v, <<>>, FALSE)
                D(v) == MkStatus("Scorpion", v, data, FALSE)
            IN CASE code = <<"00">> -> S("Interactive")
                 [] code = <<"10">> -> S("InputRequired")
                 [] code = <<"20">> -> S("OK")
                 [] code = <<"21">> -> S("PartialOK")
                 [] code = <<"30">> -> D("TemporaryRedirect")
                 [] code = <<"31">> -> D("PermanentRedirect")
                 [] code = <<"40">> -> S("TemporaryError")
                 [] code = <<"41">> -> S("DownForMaintenance")
                 [] code = <<"42">> -> S("DynamicFileError")
                 [] code = <<"43">> -> S("ProxyError")
                 [] code = <<"44">> -> S("SlowDown")
                 [] code = <<"45">> -> S("TemporarilyLockedFile")
                 [] code = <<"50">> -> D("PermanentError")
                 [] code = <<"51">> -> D("FileNotFound")
                 [] code = <<"52">> -> D("FileRemoved")
                 [] code = <<"53">> -> S("ProxyRequestRefused")
                 [] code = <<"54">> -> S("Forbidden")
                 [] code = <<"55">> -> S("EditConflict")
                 [] code = <<"56">> -> S("CredentialsRequired")
                 [] code = <<"59">> -> S("BadRequest")
                 [] code = <<"60">> -> S("RequiresClientCertificate")
                 [] code = <<"61">> -> S("CertificateNotAuthorized")
                 [] code = <<"62">> -> S("CertificateNotValid")
                 [] code = <<"70">> -> S("ReadyNewFile")
                 [] code = <<"71">> -> S("ReadyModifyFile")
                 [] code = <<"72">> -> S("ReadyOther")
                 [] code = <<"80">> -> S("AcceptedNewFile")
                 [] code = <<"81">> -> S("AcceptedFileModified")
                 [] code = <<"82">> -> S("AcceptedOther")
                 [] OTHER -> DecodePanic

\* ServerResponse { content, status }.
ServerResponse(content, status) == [content |-> content, status |-> status]

\* networking::parse_server_response: the response is split at its first
\* newline into status line and content (the unwrap panics when there is
\* none); Finger, Gopher, Nex and the rest take the response whole.
parse_server_response(response, protocol) ==
    LET parts == split_once(response, "\n")
    IN CASE protocol \in {"Gemini", "Scroll"} ->
              IF parts = None THEN ServerResponse(<<>>, DecodePanic)
              ELSE ServerResponse(parts[1][2], GeminiStatusFrom(parts[1][1]))
         [] protocol = "Guppy" ->
              IF parts = None THEN ServerResponse(<<>>, DecodePanic)
              ELSE ServerResponse(parts[1][2],
                                  MkStatus("_Success", "_Success", parts[1][1], FALSE))
         [] protocol = "TextProtocol" ->
              IF parts = None THEN ServerResponse(<<>>, DecodePanic)
              ELSE ServerResponse(parts[1][2], TextProtocolStatusFrom(parts[1][1]))
         [] protocol = "Scorpion" ->
              IF parts = None THEN ServerResponse(<<>>, DecodePanic)
              ELSE ServerResponse(parts[1][2], ScorpionStatusFrom(parts[1][1]))
         [] protocol = "Spartan" ->
              IF parts = None THEN ServerResponse(<<>>, DecodePanic)
              ELSE ServerResponse(parts[1][2], SpartanStatusFrom(parts[1][1]))
         [] OTHER ->
              ServerResponse(response, MkStatus("_Success", "_Success", <<"text/plain">>, FALSE))

\* Result<ServerResponse, String> as fetch returns it.
Ok(response) == [ok |-> TRUE, response |-> response, error |-> <<>>]
Err(msg) == [ok |-> FALSE, response |-> ServerResponse(<<>>, DecodePanic), error |-> msg]

\* The secure flag navigate hands to fetch.
ssl(protocol) == protocol \in {"Gemini", "Scroll", "Gopher(true)"}

\* str::strip_prefix("/") on the first token of a path, the path itself
\* when it does not start with '/'.
strip_prefix_slash(path) ==
    IF ~starts_with_slash(path) THEN path
    ELSE (CASE path[1] = "/" -> <<>>
            [] path[1] = "/a" -> <<"a">>
            [] path[1] = "/b" -> <<"b">>) \o Tail(path)

\* str::len of a query, in bytes: the token ".txt" is four bytes, every other
\* token of a query is one.
QueryLen(q) ==
    Len(q) + 3 * Cardinality({i \in 1..Len(q) : q[i] = ".txt"})

\* The decimal text of a length.
LenToString(n) ==
    CASE n = 0 -> "0" [] n = 1 -> "1" [] n = 2 -> "2" [] n = 3 -> "3"
      [] n = 4 -> "4" [] OTHER -> "5"

\* A request for Finger that keeps the path's leading slash.
request_body_keeps_slash(u, protocol) ==
    LET current_url == UrlToString(u)
        path == IF u.path = <<>> THEN <<"/">> ELSE u.path
        query == IF u.query = None THEN <<>> ELSE <<"\t">> \o u.query[1]
    IN CASE protocol = "Finger" -> path
         [] protocol \in {"Gemini", "Guppy", "TextProtocol"} -> current_url
         [] protocol \in {"Gopher(false)", "Gopher(true)"} -> path \o query
         [] protocol = "Nex" -> path
         [] protocol = "Scorpion" -> <<"R", " ">> \o current_url
         [] protocol = "Scroll" -> current_url \o <<" ", "en">>
         [] protocol = "Spartan" ->
              <<u.host, " ">> \o path \o <<" ">>
                  \o (IF u.query = None THEN <<"0">>
                      ELSE <<LenToString(QueryLen(u.query[1])), "\n">> \o u.query[1])

\* The request body navigate builds for current_url: an empty path is sent
\* as "/".
request_body(u, protocol) ==
    LET current_url == UrlToString(u)
        path == IF u.path = <<>> THEN <<"/">> ELSE u.path
        query == IF u.query = None THEN <<>> ELSE <<"\t">> \o u.query[1]
    IN CASE protocol = "Finger" -> strip_prefix_slash(path)
         [] protocol \in {"Gemini", "Guppy", "TextProtocol"} -> current_url
         [] protocol \in {"Gopher(false)", "Gopher(true)"} -> path \o query
         [] protocol = "Nex" -> path
         [] protocol = "Scorpion" -> <<"R", " ">> \o current_url
         [] protocol = "Scroll" -> current_url \o <<" ", "en">>
         [] protocol = "Spartan" ->
              <<u.host, " ">> \o path \o <<" ">>
                  \o (IF u.query = None THEN <<"0">>
                      ELSE <<LenToString(QueryLen(u.query[1])), "\n">> \o u.query[1])

\* The port fetch connects to: the URL's own, else the protocol's.
port(u, protocol) ==
    IF u.port # None THEN u.port[1]
    ELSE CASE protocol = "Finger" -> 79
           [] protocol = "Gemini" -> 1965
           [] protocol \in {"Gopher(false)", "Gopher(true)"} -> 70
           [] protocol = "Guppy" -> 6775
           [] protocol = "Nex" -> 1900
           [] protocol = "Scorpion" -> 1517
           [] protocol = "Scroll" -> 5699
           [] protocol = "Spartan" -> 300
           [] protocol = "TextProtocol" -> 1961
           [] OTHER -> 0

\* The bytes fetch and fetch_udp write: the request body and CRLF.
request(body) == body \o <<"\r\n">>

\* The transport fetch uses.
transport(protocol, secure) ==
    IF protocol = "Guppy" THEN "udp" ELSE IF secure THEN "tls" ELSE "tcp"

\* The steps of a transport at which the operating system or the peer can
\* fail it, in the order fetch takes them.
Stages(t) ==
    CASE t = "udp" -> {"bind", "resolve", "connect", "send", "recv"}
      [] t = "tls" -> {"connect", "handshake", "send", "recv"}
      [] t = "tcp" -> {"connect", "send", "recv"}

\* A NUL byte.
Nul == "\\0"

\* The receive loop of fetch_udp over the datagrams that arrive, in order:
\* the second word of a datagram's first line is appended as content type,
\* a datagram with exactly one line after the first ends the loop, any other
\* is stripped of its zeros, appended from its first newline on and
\* acknowledged; when no datagram is left recv is what ends the loop.  A
\* datagram is shorter than the receive buffer: zeros follow it there.
\* log keeps what the loop did, in order: <<"recv", datagram>>,
\* <<"append", bytes>> for a payload, <<"send", bytes>> for an acknowledgment.
RECURSIVE recv_loop(_, _, _)
recv_loop(datagrams, data, log) ==
    IF datagrams = <<>> THEN [state |-> "recv", data |-> data, log |-> log]
    ELSE LET NulPadding == "\\0..."
             buf == Head(datagrams) \o <<NulPadding>>
             log1 == Append(log, <<"recv", Head(datagrams)>>)
             first_line == lines(buf)[1]
             server_info == split(first_line, " ")
             data1 == IF Len(server_info) >= 2
                      THEN data \o server_info[2] \o <<"\n">> ELSE data
             seq == server_info[1]
             data_lines == Len(lines(buf)) - 1
             newbuf == SelectSeq(buf, LAMBDA b : b \notin {Nul, NulPadding})
             newstring == split_once(newbuf, "\n")
         IN IF data_lines = 1
            THEN [state |-> "completed", data |-> data1, log |-> log1]
            ELSE IF newstring = None
            THEN [state |-> "panic", data |-> data1, log |-> log1]
            ELSE recv_loop(Tail(datagrams), data1 \o newstring[1][2],
                           log1 \o <<<<"append", newstring[1][2]>>,
                                     <<"send", seq \o <<"\r\n">>>>>>)

\* fetch_udp: a failed bind is an Err naming the host, a failed send or recv
\* the I/O error's text; to_socket_addrs, first and connect are unwrapped.
\* The bytes of an outcome are the datagrams the peer sends.
fetch_udp(hostname, outcome) ==
    CASE outcome.failed = "" ->
             LET r == recv_loop(outcome.bytes, <<>>, <<>>)
             IN CASE r.state = "completed" -> Ok(parse_server_response(r.data, "Guppy"))
                  [] r.state = "panic" -> Ok(ServerResponse(<<>>, DecodePanic))
                  [] OTHER -> Err(outcome.error)
      [] outcome.failed = "bind" -> Err(<<"Failed to connect to hostname: ", hostname>>)
      [] outcome.failed \in {"resolve", "connect"} -> Ok(ServerResponse(<<>>, DecodePanic))
      [] OTHER -> Err(outcome.error)

\* fetch: the peer's bytes decoded; over TLS every failure is the I/O
\* error's text, over plain TCP a failed connect is a message naming the
\* host and a failed send or read the I/O error's text.
fetch(u, body, secure, protocol, outcome) ==
    IF protocol = "Guppy" THEN fetch_udp(u.host, outcome)
    ELSE IF outcome.failed = "" THEN Ok(parse_server_response(outcome.bytes, protocol))
    ELSE IF secure THEN Err(outcome.error)
    ELSE IF outcome.failed = "connect"
    THEN Err(<<"Failed to connect to hostname: ", u.host>>)
    ELSE Err(outcome.error)

\* --------------------------------------------------------- content handlers
\* A handler's page model: the text it holds and whether it holds it as one
\* literal block (plaintext) or as typed lines / blocks.
PageModel(text, literal) == [text |-> text, literal |-> literal]

\* #[derive(Default)] ContentHandlers: empty strings and empty line lists.
DefaultHandlers ==
    [h \in Handlers |-> PageModel(<<>>, h \in {"finger", "plaintext"})]

\* Scorpion::parse_content slices out of range on a block whose declared
\* lengths run past the end of the stream.
scorpion_parse_panics(response, plaintext) ==
    ~plaintext /\ \E i \in 1..Len(response) : response[i] = "<truncated block>"

\* ProtocolHandler::parse_content of one handler: Finger and Plaintext
\* ignore the plaintext flag, the others keep one literal block when it is set.
handler_parse(h, response, plaintext) ==
    PageModel(response, plaintext \/ h \in {"finger", "plaintext"})

\* ContentHandlers::parse_content.
parse_content(s, response, plaintext, protocol) ==
    IF HandlerOf(protocol) = "scorpion" /\ scorpion_parse_panics(response, plaintext)
    THEN [s EXCEPT !.crashed = TRUE]
    ELSE [s EXCEPT !.content_handlers[HandlerOf(protocol)] =
                        handler_parse(HandlerOf(protocol), response, plaintext)]

\* render_browser: the page model handed to the renderer for current_url.
rendered(s) == s.content_handlers[HandlerOf(ProtocolFromUrl(s.current_url))]

\* -------------------------------------------------------------- the state
VARIABLES
    history,            \* HISTORY: the entries
    index,              \* HISTORY_INDEX: the cursor, 0-based
    url,                \* Breeze.url: the text of the address bar
    current_url,        \* Breeze.current_url
    page_content,       \* Breeze.page_content
    content_handlers,   \* Breeze.content_handlers: one page model per handler
    navigation_hint,    \* Breeze.navigation_hint
    nav_job,            \* Breeze.nav_job
    input_request,      \* Breeze.input_request
    detached,           \* "net" threads still running whose Promise was dropped
    crashed,            \* the process has panicked
    calls               \* per thread, the history function it is in and the
                        \* number of locks it has acquired there

vars == <<history, index, url, current_url, page_content, content_handlers,
          navigation_hint, nav_job, input_request, detached, crashed, calls>>

NavigationHint(u, protocol, add_to_history) ==
    [url |-> u, protocol |-> protocol, add_to_history |-> add_to_history]

NavigationJob(promise, plaintext, protocol) ==
    [nav_promise |-> promise, plaintext |-> plaintext, protocol |-> protocol]

InputRequest(prompt, sensitive, destination) ==
    [prompt |-> prompt, sensitive |-> sensitive, destination |-> destination,
     user_input |-> <<>>, completed |-> FALSE]

\* --------------------------------------------------------------- promises
\* The Promise of a job: the "net" thread spawned with the arguments of fetch,
\* the address the thread connects to and the bytes it writes, and its
\* result once the thread has returned.  latest tells whether the thread is
\* the one spawned by the most recent navigate that fetched.
Promise(u, body, secure, protocol) ==
    [url |-> u, request_body |-> body, ssl |-> secure, protocol |-> protocol,
     addr |-> [host |-> u.host, port |-> port(u, protocol)],
     request |-> request(body),
     ready |-> None, latest |-> TRUE]

\* The threads left running without a receiver when a job is dropped: a
\* Promise that is not ready yet leaves one, a ready one leaves none.
detached_by(dropped) ==
    IF dropped # None /\ dropped[1].nav_promise.ready = None THEN 1 ELSE 0

\* A job that was tracked when a later navigate spawned its thread.
superseded(job) ==
    IF job = None THEN None ELSE Some([job[1] EXCEPT !.nav_promise.latest = FALSE])

\* An insert that keeps a job already tracked and drops the new one.
get_or_insert(old, new) ==
    IF old = None THEN [job |-> Some(new), dropped |-> None]
    ELSE [job |-> old, dropped |-> Some(new)]

\* Option::replace: the new job is stored, the old one is handed back.
replace(old, new) == [job |-> Some(new), dropped |-> old]

\* --------------------------------------------------------------- navigate
InvalidUrlText == <<"Invalid URL">>

NavRecord(s, u, protocol, protocol_hint, should_add_entry, spawned) ==
    [url |-> u, protocol |-> protocol, hint |-> protocol_hint,
     add |-> should_add_entry, spawned |-> spawned,
     job_after |-> s.nav_job, rendered_after |-> rendered(s)]

\* Breeze::navigate.
navigate(s, protocol_hint, should_add_entry) ==
    LET typed == UrlFromStr(s.url)
        s1 == IF should_add_entry
              THEN add_entry(s, typed,
                             IF protocol_hint = None
                             THEN ProtocolFromUrl(s.current_url)
                             ELSE protocol_hint[1])
              ELSE s
        s2 == [s1 EXCEPT !.current_url = typed]
        protocol == ProtocolFromUrl(typed)
        plaintext == protocol_hint = Some("Plaintext") \/ ends_with_txt(UrlToString(typed))
        r == replace(superseded(s2.nav_job),
                     NavigationJob(Promise(typed, request_body(typed, protocol), ssl(protocol),
                                           protocol),
                                   plaintext, protocol))
        s3 == [s2 EXCEPT
                 !.nav_job = r.job,
                 !.detached = @ + detached_by(r.dropped),
                 !.overflow = @ \/ 1 + s2.detached + detached_by(r.dropped) > MaxWorkers]
    IN IF protocol = "Unknown"
       THEN LET s4 == [s2 EXCEPT !.page_content = InvalidUrlText]
            IN [s4 EXCEPT !.navs = Append(@, NavRecord(s4, typed, protocol,
                                                       protocol_hint, should_add_entry, FALSE))]
       ELSE [s3 EXCEPT !.navs = Append(@, NavRecord(s3, typed, protocol,
                                                    protocol_hint, should_add_entry, TRUE))]

\* --------------------------------------------------------- render_browser
ProfileNewUrl == <<"breeze", "://", "profile", "/new">>

\* One user event of a frame, as render_browser and the menu bar see it.
Event(kind, target) == [kind |-> kind, target |-> target]

\* render_browser (and the Profile menu of update) for the frame's event.
render_browser(s, ev) ==
    CASE ev.kind = "back" ->
           IF back_ret(s) # None
           THEN navigate([back(s) EXCEPT !.url = UrlToString(back_ret(s)[1].url)],
                         Some(back_ret(s)[1].protocol), FALSE)
           ELSE back(s)
      [] ev.kind = "forward" ->
           IF forward_ret(s) # None
           THEN navigate([forward(s) EXCEPT !.url = UrlToString(forward_ret(s)[1].url)],
                         Some(forward_ret(s)[1].protocol), FALSE)
           ELSE forward(s)
      [] ev.kind = "go" ->
           navigate([s EXCEPT !.url = ev.target], None, TRUE)
      [] ev.kind = "link" ->
           LET path == link_path(ev.target[1])[1]
               joined == join(s.current_url, path)
           IN [s EXCEPT !.url = UrlToString(joined),
                        !.navigation_hint =
                            Some(NavigationHint(UrlToString(joined),
                                                IF ends_with_txt(path) THEN "Plaintext"
                                                ELSE ProtocolFromUrl(joined),
                                                TRUE))]
      [] ev.kind = "submit" ->
           IF s.input_request[1].destination = ProfileNewUrl
           THEN [s EXCEPT !.input_request[1].user_input = ev.target,
                          !.input_request[1].completed = TRUE]
           ELSE [s EXCEPT !.input_request[1].user_input = ev.target,
                          !.input_request[1].completed = TRUE,
                          !.navigation_hint =
                              Some(NavigationHint(
                                  s.input_request[1].destination \o <<"?">> \o ev.target,
                                  ProtocolFromStr(s.input_request[1].destination[1]),
                                  TRUE))]
      [] ev.kind = "profile_new" ->
           [s EXCEPT !.input_request =
                         Some(InputRequest(
                             <<"Enter the name you would like to use for this profile">>,
                             FALSE, ProfileNewUrl))]
      [] OTHER -> s

\* ----------------------------------------------------------------- update
NotFoundMsg(data) ==
    <<"The requested resource could not be found.\n\nAdditional information:\n\n">> \o data

CertificateRequiredMsg ==
    <<"The requested resource requires a client certificate. You can create one by clicking \"New\" in the Profiles tab.">>

CertificateNotAuthorizedMsg ==
    <<"Your client certificate is not authorized to access this resource">>

CertificateNotValidMsg ==
    <<"The requested resource is unavailable as your client certificate is invalid. Check to see if your certificate has expired.">>

\* The arms of the match on response.status in update.
InputArm == {<<"Gemini", "InputExpected">>}

SuccessArm ==
    {<<"Gemini", "Success">>, <<"Spartan", "Success">>, <<"TextProtocol", "OK">>,
     <<"_Success", "_Success">>, <<"Scorpion", "OK">>}

RedirectArm ==
    {<<"Gemini", "TemporaryRedirect">>, <<"Gemini", "PermanentRedirect">>,
     <<"Spartan", "Redirect">>, <<"TextProtocol", "Redirect">>,
     <<"Scorpion", "TemporaryRedirect">>, <<"Scorpion", "PermanentRedirect">>}

FailureArm ==
    {<<"Gemini", "TemporaryFailure">>, <<"Gemini", "ServerUnavailable">>,
     <<"Gemini", "CGIError">>, <<"Gemini", "ProxyError">>, <<"Gemini", "SlowDown">>,
     <<"Gemini", "PermanentFailure">>, <<"Gemini", "NotFound">>, <<"Gemini", "Gone">>,
     <<"Gemini", "ProxyRequestRefused">>, <<"Gemini", "BadRequest">>,
     <<"Scorpion", "PermanentError">>, <<"Scorpion", "FileNotFound">>,
     <<"Scorpion", "FileRemoved">>, <<"Spartan", "ClientError">>,
     <<"Spartan", "ServerError">>, <<"TextProtocol", "NOK">>}

\* A redirect arm that stops following redirects.
redirect_arm_settles(s, job, target) == s

\* The redirect arm: the target replaces the path when it starts with '/',
\* otherwise it is joined to current_url and the joined Url is thrown away.
redirect_arm(s, job, target) ==
    IF ~starts_with_slash(target) /\ join_is_err(target)
    THEN [s EXCEPT !.crashed = TRUE]
    ELSE LET cu == IF starts_with_slash(target) THEN set_path(s.current_url, target)
                   ELSE s.current_url
         IN [s EXCEPT !.url = UrlToString(cu),
                      !.navigation_hint =
                          Some(NavigationHint(UrlToString(cu), job.protocol, TRUE))]

\* The input arm.
input_arm(s, status) ==
    LET s1 == remove_latest_entry(s)
    IN IF s1.crashed THEN s1
       ELSE [s1 EXCEPT !.input_request =
                           Some(InputRequest(status.data, status.sensitive,
                                             UrlToString(s.current_url)))]

\* The Some(Ok(response)) arm, up to the end of the inner match.
ok_arm(s, job, response) ==
    LET s1 == [s EXCEPT !.page_content = response.content]
        key == <<response.status.family, response.status.variant>>
    IN CASE key \in InputArm -> input_arm(s1, response.status)
         [] key \in SuccessArm ->
              parse_content(s1, response.content, job.plaintext, job.protocol)
         [] key \in RedirectArm -> redirect_arm(s1, job, response.status.data)
         [] key \in FailureArm ->
              parse_content(s1, NotFoundMsg(response.status.data), TRUE, job.protocol)
         [] key = <<"Gemini", "RequiresClientCertificate">> ->
              parse_content(s1, CertificateRequiredMsg, TRUE, job.protocol)
         [] key = <<"Gemini", "CertificateNotAuthorized">> ->
              parse_content(s1, CertificateNotAuthorizedMsg, TRUE, job.protocol)
         [] key = <<"Gemini", "CertificateNotValid">> ->
              parse_content(s1, CertificateNotValidMsg, TRUE, job.protocol)
         [] OTHER -> s1

\* The match on job.nav_promise.ready() that ends update; polled keeps the
\* job the frame polled.  A worker that panicked while decoding has dropped
\* the Promise's sender without a value, and ready() panics on it.
poll(s) ==
    IF s.crashed \/ s.nav_job = None THEN s
    ELSE LET job == s.nav_job[1]
             result == job.nav_promise.ready
             s0 == [s EXCEPT !.polled = Some(job)]
             s1 == IF ~result[1].ok
                   THEN parse_content(s0, result[1].error, TRUE, job.protocol)
                   ELSE IF result[1].response.status = DecodePanic
                   THEN [s0 EXCEPT !.crashed = TRUE]
                   ELSE ok_arm(s0, job, result[1].response)
         IN IF result = None THEN s0
            ELSE IF s1.crashed THEN s1
            ELSE [s1 EXCEPT !.nav_job = None]

\* The navigation hint taken at the end of the frame's rendering.
take_hint(s) ==
    IF s.crashed \/ s.navigation_hint = None THEN s
    ELSE LET hint == s.navigation_hint[1]
         IN navigate([s EXCEPT !.navigation_hint = None, !.url = hint.url],
                     Some(hint.protocol), hint.add_to_history)

\* A completed input request is destroyed.
clear_completed(s) ==
    IF ~s.crashed /\ s.input_request # None /\ s.input_request[1].completed
    THEN [s EXCEPT !.input_request = None]
    ELSE s

\* Breeze::update for a frame with user event ev.
update(s, ev) == poll(clear_completed(take_hint(render_browser(s, ev))))

\* ------------------------------------------------------------ the machine
\* The program state as one record.  A frame also keeps, in hlog, navs and
\* polled, the history calls it made, the navigate calls it made and what
\* its poll of nav_job found; they are part of no state, only of the step.
Cur ==
    [history |-> history, index |-> index, url |-> url, current_url |-> current_url,
     page_content |-> page_content, content_handlers |-> content_handlers,
     navigation_hint |-> navigation_hint, nav_job |-> nav_job,
     input_request |-> input_request, detached |-> detached, crashed |-> crashed,
     hlog |-> <<>>, navs |-> <<>>, polled |-> None, overflow |-> FALSE]

Becomes(s) ==
    /\ history' = s.history
    /\ index' = s.index
    /\ url' = s.url
    /\ current_url' = s.current_url
    /\ page_content' = s.page_content
    /\ content_handlers' = s.content_handlers
    /\ navigation_hint' = s.navigation_hint
    /\ nav_job' = s.nav_job
    /\ input_request' = s.input_request
    /\ detached' = s.detached
    /\ crashed' = s.crashed
    /\ UNCHANGED calls

\* URL strings the user types or passes on the command line:
\* one of a known protocol and one of an unknown scheme.
TypedUrls ==
    {<<"gemini", "://", "h", "/a">>, <<"foo", "://", "h", "/a">>}

\* Texts the user enters in the input modal.
Inputs == {<<"x">>}

\* What the network does to a fetch: it fails at a stage with an I/O
\* error, or the peer's bytes arrive.
Outcome(failed, bytes, error) == [failed |-> failed, bytes |-> bytes, error |-> error]

\* What can happen to a fetch: the connect fails, or the bytes of a Gemini
\* server arrive: input required, success, a redirect to an absolute URL, a
\* redirect to a path, a redirect to a URL that does not parse.
Outcomes ==
    {Outcome("connect", <<>>, <<"Connection refused">>)}
        \cup {Outcome("", b, <<>>) :
                  b \in {<<"10", " ", "Enter query", "\n">>,
                         <<"20", " ", "text/gemini", "\n", "=> /a a">>,
                         <<"31", " ", "gemini", "://", "h", "/a", "\n">>,
                         <<"30", " ", "/a", "\n">>,
                         <<"30", " ", "gemini", "://", MalformedHost, "\n">>}}

\* Breeze::new(starting_url).
New(start) ==
    /\ history = <<>>
    /\ index = 0
    /\ url = start
    /\ current_url = UrlFromStr(start)
    /\ page_content = <<>>
    /\ content_handlers = DefaultHandlers
    /\ navigation_hint =
           Some(NavigationHint(start, ProtocolFromUrl(UrlFromStr(start)), TRUE))
    /\ nav_job = None
    /\ input_request = None
    /\ detached = 0
    /\ crashed = FALSE
    /\ calls = [t \in 1..2 |-> [op |-> "", url |-> <<>>, held |-> 0]]

Init == \E start \in TypedUrls : New(start)

\* The link lines of the pages the servers send.
LinkLines == {"=> /a a"}

\* The user events of a frame.
Events ==
    {Event("none", <<>>), Event("back", <<>>), Event("forward", <<>>),
     Event("profile_new", <<>>)}
        \cup {Event("go", u) : u \in TypedUrls}
        \cup {Event("link", <<l>>) : l \in LinkLines}
        \cup {Event("submit", t) : t \in Inputs}

\* Whether the frame can see event ev.  The pointer's Extra1 / Extra2 buttons
\* reach back and forward in every frame; the address bar, the links and the
\* menu lie under the input modal while it is open and get no clicks then;
\* a link needs a Gemtext page that shows it; "Submit" needs the modal, and
\* the user answers the prompts of the typed URLs and the new profile's
\* name (a prompt shown for a URL that already carries an answer is left
\* unanswered).
Possible(ev) ==
    /\ ~crashed
    /\ ev.kind \in {"go", "link", "profile_new"} => input_request = None
    /\ ev.kind = "link" =>
           /\ HandlerOf(ProtocolFromUrl(current_url)) = "gemtext"
           /\ ~rendered(Cur).literal
           /\ \E i \in 1..Len(rendered(Cur).text) : rendered(Cur).text[i] = ev.target[1]
    /\ ev.kind = "submit" =>
           input_request # None
               /\ input_request[1].destination \in TypedUrls \cup {ProfileNewUrl}

\* A frame of the loop with user event ev.
Frame(ev) ==
    /\ ~update(Cur, ev).overflow
    /\ Becomes(update(Cur, ev))

\* A frame without user input.
UpdateIdle == Possible(Event("none", <<>>)) /\ Frame(Event("none", <<>>))

\* The back button or the pointer's Extra1 button.
UpdateBack == Possible(Event("back", <<>>)) /\ Frame(Event("back", <<>>))

\* The forward button or the pointer's Extra2 button.
UpdateForward ==
    Possible(Event("forward", <<>>)) /\ Frame(Event("forward", <<>>))

\* "Go" or Enter in the address bar.
UpdateGo ==
    \E u \in TypedUrls : Possible(Event("go", u)) /\ Frame(Event("go", u))

\* A click on a link of the rendered page.
UpdateLink ==
    \E l \in LinkLines : Possible(Event("link", <<l>>)) /\ Frame(Event("link", <<l>>))

\* "Submit" in the input modal.
UpdateSubmit ==
    \E t \in Inputs : Possible(Event("submit", t)) /\ Frame(Event("submit", t))

\* Profile > New in the menu bar.
UpdateProfileNew ==
    Possible(Event("profile_new", <<>>)) /\ Frame(Event("profile_new", <<>>))

\* The "net" thread of the tracked job returns from fetch and its result
\* reaches the Promise.
WorkerReturn ==
    /\ ~crashed
    /\ nav_job # None
    /\ nav_job[1].nav_promise.ready = None
    /\ \E outcome \in Outcomes :
           nav_job' = Some([nav_job[1] EXCEPT !.nav_promise.ready =
                               Some(fetch(nav_job[1].nav_promise.url,
                                          nav_job[1].nav_promise.request_body,
                                          nav_job[1].nav_promise.ssl,
                                          nav_job[1].nav_promise.protocol, outcome))])
    /\ UNCHANGED <<history, index, url, current_url, page_content, content_handlers,
                   navigation_hint, input_request, detached, crashed, calls>>

\* A "net" thread whose Promise was dropped returns: nobody receives its result.
DetachedWorkerReturn ==
    /\ ~crashed
    /\ detached > 0
    /\ detached' = detached - 1
    /\ UNCHANGED <<history, index, url, current_url, page_content, content_handlers,
                   navigation_hint, nav_job, input_request, crashed, calls>>

Next ==
    \/ UpdateIdle
    \/ UpdateBack
    \/ UpdateForward
    \/ UpdateGo
    \/ UpdateLink
    \/ UpdateSubmit
    \/ UpdateProfileNew
    \/ WorkerReturn
    \/ DetachedWorkerReturn

Spec == Init /\ [][Next]_vars

\* ------------------------------------------------- servers and transports
\* The browser started on a URL of a supported protocol and left alone: the
\* frames pass without user input, and every fetch ends in whatever its
\* server or its transport does.

\* Start URLs: every scheme Protocol::from_str knows, with and without a
\* port, a path and a query; a
\* path and a query can end in ".txt".
StartUrls ==
    {UrlToString(MkUrl(sc, "h", p, path, q)) :
         sc \in {"finger", "gemini", "gopher", "gophers", "guppy", "nex", "scorpion",
                 "scroll", "spartan", "text"},
         p \in {None, Some(7070)},
         path \in {<<>>, <<"/a">>, <<"/a", ".txt">>},
         q \in {None, Some(<<"x">>), Some(<<".txt">>)}}

\* The protocols whose responses start with a status line.
StatusProtocols == {"Gemini", "Scroll", "Spartan", "TextProtocol", "Scorpion"}

\* The status codes a protocol's decoder knows.
Codes(protocol) ==
    CASE protocol \in {"Gemini", "Scroll"} ->
             {"10", "11", "20", "21", "22", "23", "24", "25", "26", "27", "28", "29",
              "30", "31", "40", "41", "42", "43", "44", "50", "51", "52", "53", "59",
              "60", "61", "62"}
      [] protocol = "Spartan" -> {"2", "3", "4", "5"}
      [] protocol = "TextProtocol" -> {"20", "30", "40"}
      [] protocol = "Scorpion" ->
             {"00", "10", "20", "21", "30", "31", "40", "41", "42", "43", "44", "45",
              "50", "51", "52", "53", "54", "55", "56", "59", "60", "61", "62", "70",
              "71", "72", "80", "81", "82"}
      [] OTHER -> {}

\* The codes among them that redirect.
RedirectCodes(protocol) ==
    CASE protocol \in {"Gemini", "Scroll", "Scorpion"} -> {"30", "31"}
      [] protocol = "Spartan" -> {"3"}
      [] protocol = "TextProtocol" -> {"30"}
      [] OTHER -> {}

\* The codes of the input-required family of Gemini and Scroll.
InputCodes == {"10", "11", "12", "13", "14", "15", "16", "17", "18", "19"}

\* A code no decoder knows.
UndefinedCode == "99"

\* The text a status line carries after its code, and a body.
Detail == <<"detail">>

Body == <<"body">>

\* A response: status line, newline, body.
Response(code, meta, body) == <<code, " ">> \o meta \o <<"\n">> \o body

\* The targets a server redirects the fetch of u to: a path, a path with a
\* query, an absolute URL.
RedirectTargets(u) ==
    {<<"/b">>, <<"/b", "?", "x">>, <<u.scheme, "://", u.host, "/b">>}

MaxChunks == 2

\* The payloads of the data chunks of a Guppy exchange, in order; a payload
\* is a line that a newline ends, one with a NUL byte inside, or text that
\* no newline ends.
GuppyPayloadLists ==
    LET GuppyPayloads == {<<"body", "\n">>, <<"a", Nul, "b", "\n">>, <<"body">>}
    IN UNION {[1..n -> GuppyPayloads] : n \in 1..MaxChunks}

\* A Guppy exchange: a first datagram with sequence number, content type
\* and the first chunk, one datagram with the next number for each further
\* chunk, and the datagram that is the next number's line alone.
GuppyExchange(content_type, payloads) ==
    LET SeqToken(k) == <<"6", "7", "8", "9">>[k]
    IN
    [k \in 1..(Len(payloads) + 1) |->
        IF k = 1 THEN <<SeqToken(1), " ">> \o content_type \o <<"\r", "\n">> \o payloads[1]
        ELSE IF k <= Len(payloads) THEN <<SeqToken(k), "\r", "\n">> \o payloads[k]
        ELSE <<SeqToken(k), "\r", "\n">>]

\* What a server of the protocol can send for the fetch of u; for a
\* protocol with a status line also byte strings that keep no response
\* format: nothing at all, a status line that no newline ends, a status
\* line with no space after the code.
ServerBytes(protocol, u) ==
    IF protocol \in StatusProtocols
    THEN {Response(c, Detail, Body) : c \in Codes(protocol) \ RedirectCodes(protocol)}
             \cup {Response(c, t, <<>>) :
                       c \in RedirectCodes(protocol), t \in RedirectTargets(u)}
             \cup {Response(UndefinedCode, Detail, Body)}
             \cup (IF protocol \in {"Gemini", "Scroll"}
                   THEN {Response(c, Detail, <<>>) : c \in InputCodes} ELSE {})
             \cup {<<>>, <<"20", " ", "text/gemini">>, <<"60", "\n">>}
    ELSE IF protocol = "Guppy"
    THEN {GuppyExchange(<<"text/gemini">>, payloads) : payloads \in GuppyPayloadLists}
             \cup {<<<<>>>>}
    ELSE {Body, <<>>}

\* The text of the I/O error a failed stage reports.
IoError(stage) == <<"os error: ", stage>>

ResponseInit == \E start \in StartUrls : New(start)

\* The peer answers the tracked job's request and closes the connection.
PeerResponds ==
    /\ ~crashed
    /\ nav_job # None
    /\ nav_job[1].nav_promise.ready = None
    /\ \E b \in ServerBytes(nav_job[1].nav_promise.protocol, nav_job[1].nav_promise.url) :
           nav_job' = Some([nav_job[1] EXCEPT !.nav_promise.ready =
                               Some(fetch(nav_job[1].nav_promise.url,
                                          nav_job[1].nav_promise.request_body,
                                          nav_job[1].nav_promise.ssl,
                                          nav_job[1].nav_promise.protocol,
                                          Outcome("", b, <<>>)))])
    /\ UNCHANGED <<history, index, url, current_url, page_content, content_handlers,
                   navigation_hint, input_request, detached, crashed, calls>>

\* The tracked job's transport fails at one of its stages.
TransportFails ==
    /\ ~crashed
    /\ nav_job # None
    /\ nav_job[1].nav_promise.ready = None
    /\ \E stage \in Stages(transport(nav_job[1].nav_promise.protocol,
                                      nav_job[1].nav_promise.ssl)) :
           nav_job' = Some([nav_job[1] EXCEPT !.nav_promise.ready =
                               Some(fetch(nav_job[1].nav_promise.url,
                                          nav_job[1].nav_promise.request_body,
                                          nav_job[1].nav_promise.ssl,
                                          nav_job[1].nav_promise.protocol,
                                          Outcome(stage, <<>>, IoError(stage))))])
    /\ UNCHANGED <<history, index, url, current_url, page_content, content_handlers,
                   navigation_hint, input_request, detached, crashed, calls>>

ResponseNext ==
    \/ UpdateIdle
    \/ PeerResponds
    \/ TransportFails

ResponseSpec == ResponseInit /\ [][ResponseNext]_vars

\* ------------------------------------------------------ frames and their logs
\* What update does in the frames the current state allows, one record per
\* user event, with the frame's logs of history and navigate calls.
Frames == {update(Cur, ev) : ev \in {e \in Events : Possible(e)}}

\* The history calls of a frame.
HistoryCalls(f) == {f.hlog[k] : k \in 1..Len(f.hlog)}

\* The navigate calls of a frame.
NavigateCalls(f) == {f.navs[k] : k \in 1..Len(f.navs)}

\* The frame found a result in the job it polled.
Consumes(f) == f.polled # None /\ f.polled[1].nav_promise.ready # None

\* HISTORY and HISTORY_INDEX alone, as the history functions see them.
HistoryState(h, i) == [history |-> h, index |-> i, hlog |-> <<>>, overflow |-> FALSE]

\* The history states of the program: the one between frames, and the ones
\* each history call of the frames that can follow leaves.
HistoryStates ==
    {HistoryState(history, index)}
        \cup {HistoryState(e.post_history, e.post_index) :
                  e \in UNION {HistoryCalls(f) : f \in Frames}}

\* The URLs navigate hands to add_entry.
PushedUrls ==
    {UrlFromStr(t) : t \in TypedUrls}
        \cup {UrlFromStr(t \o <<"?">> \o i) : t \in TypedUrls, i \in Inputs}

\* ------------------------------------------------------------------ claims
\* C1: in every reachable state, if the history has at least one entry then
\* 0 <= cursor < number of entries.
C1_CursorInBounds == history # <<>> => 0 <= index /\ index < Len(history)

\* C2: from every reachable history state, also after remove_latest_entry,
\* a call of add_entry ends with cursor < number of entries.
C2_PushLeavesCursorInBounds ==
    \A f \in Frames : \A e \in HistoryCalls(f) :
        e.op = "add_entry" => e.post_index < Len(e.post_history)

\* C3: add_entry(u) immediately followed by add_entry(u) leaves the entries
\* and the cursor as they were after the first call, for every history state
\* of the program and every URL; and so do two add_entry calls for one URL
\* that a frame makes one after the other.
C3_SecondPushOfSameUrlChangesNothing ==
    /\ \A hs \in HistoryStates : \A u \in PushedUrls :
           LET s1 == add_entry(hs, u, ProtocolFromUrl(u))
               s2 == add_entry(s1, u, ProtocolFromUrl(u))
           IN /\ Len(s2.history) = Len(s1.history)
              /\ s2.history = s1.history
              /\ s2.index = s1.index
    /\ \A f \in Frames : \A k \in 1..(Len(f.hlog) - 1) :
           (/\ f.hlog[k].op = "add_entry"
            /\ f.hlog[k + 1].op = "add_entry"
            /\ f.hlog[k + 1].url = f.hlog[k].url)
               => /\ f.hlog[k + 1].post_history = f.hlog[k].post_history
                  /\ f.hlog[k + 1].post_index = f.hlog[k].post_index

\* C3 witness: a frame calls add_entry twice in a row for one URL (the
\* address bar's navigate, then the pending hint's navigate), and the first
\* of the two calls pushed an entry.
C3_Witness ==
    \E f \in Frames : \E k \in 1..(Len(f.hlog) - 1) :
        /\ f.hlog[k].op = "add_entry"
        /\ f.hlog[k + 1].op = "add_entry"
        /\ f.hlog[k + 1].url = f.hlog[k].url
        /\ Len(f.hlog[k].post_history) = Len(f.hlog[k].pre_history) + 1

\* C4: when add_entry is called with the cursor at an index i that is not
\* the tail, the entries at indices 0..i are kept, every entry after i is
\* removed, and unless the new URL equals the entry at i the new entry
\* becomes index i+1 with the cursor on it.
C4_PushAfterBackTruncates ==
    \A f \in Frames : \A e \in HistoryCalls(f) :
        (e.op = "add_entry" /\ e.pre_index + 1 < Len(e.pre_history)) =>
            LET i == e.pre_index
                kept == SubSeq(e.pre_history, 1, i + 1)
            IN IF e.url[1] = e.pre_history[i + 1].url
               THEN e.post_history = kept
               ELSE /\ Len(e.post_history) = i + 2
                    /\ SubSeq(e.post_history, 1, i + 1) = kept
                    /\ e.post_history[i + 2].url = e.url[1]
                    /\ e.post_index = i + 1

\* C4 witness: a frame calls add_entry with the cursor before the tail and
\* a URL other than the cursor's, and the entry after the cursor is replaced.
C4_Witness ==
    \E f \in Frames : \E e \in HistoryCalls(f) :
        /\ e.op = "add_entry"
        /\ e.pre_index + 1 < Len(e.pre_history)
        /\ e.url[1] # e.pre_history[e.pre_index + 1].url
        /\ e.post_index = e.pre_index + 1
        /\ e.post_history[e.post_index + 1] # e.pre_history[e.pre_index + 2]

\* C5: back() (forward()) either moves the cursor by exactly one and returns
\* the entry at the new cursor, or returns nothing and leaves the cursor
\* unchanged; the entries never change.
C5_BackForwardMoveOrNoOp ==
    \A f \in Frames : \A e \in HistoryCalls(f) :
        e.op \in {"back", "forward"} =>
            /\ e.post_history = e.pre_history
            /\ IF e.ret = None
               THEN e.post_index = e.pre_index
               ELSE /\ e.post_index = (IF e.op = "back" THEN e.pre_index - 1
                                       ELSE e.pre_index + 1)
                    /\ e.ret = get(e.post_history, e.post_index)

\* C6: when a fetch completes with an input-required status, the history
\* entry that is removed is the entry for the URL that was fetched, however
\* the navigation was started.
C6_InputRemovesFetchedUrlsEntry ==
    \A f \in Frames : \A e \in HistoryCalls(f) :
        (e.op = "remove_latest_entry" /\ e.ret # None) =>
            e.ret[1].url = f.polled[1].nav_promise.url

\* The parts of the state a worker's result reaches when it is consumed.
observed == <<content_handlers, page_content, history, index, input_request,
              navigation_hint, url, current_url, nav_job, crashed>>

\* C7: at most one job is tracked; the tracked job, and so the job a frame
\* polls and consumes, is always the one of the most recent navigation that
\* started a fetch; and the return of a worker whose job was replaced changes
\* neither the content model, the history, the input request nor the pending
\* navigation hint.
C7_ReplacedWorkerNeverObserved ==
    /\ [](/\ Len(nav_job) <= 1
          /\ nav_job # None => nav_job[1].nav_promise.latest
          /\ \A f \in Frames : f.polled # None => f.polled[1].nav_promise.latest)
    /\ [][detached' < detached => UNCHANGED observed]_vars

\* C7 witness: a replaced worker is still running while the result of the
\* job that replaced it is ready, and the next frame consumes that result.
C7_Witness ==
    /\ detached > 0
    /\ nav_job # None
    /\ nav_job[1].nav_promise.ready # None
    /\ \E f \in Frames : Consumes(f) /\ f.nav_job = None

\* C8: a frame that polls a job whose worker has produced a result consumes
\* it, and after that frame no job is outstanding.
C8_ResultConsumedThenIdle ==
    \A f \in Frames : Consumes(f) => ~f.crashed /\ f.nav_job = None

\* C9: a navigation to a URL of Unknown protocol spawns no worker, and right
\* after it no job is outstanding, also when an earlier job was in flight.
C9_UnknownNavigationLeavesNoJob ==
    \A f \in Frames : \A n \in NavigateCalls(f) :
        n.protocol = "Unknown" => ~n.spawned /\ n.job_after = None

\* C10: after a navigation to a URL of Unknown protocol the page model the
\* renderer is handed for the current URL is the literal text "Invalid URL".
C10_UnknownNavigationRendersInvalidUrl ==
    \A f \in Frames : \A n \in NavigateCalls(f) :
        n.protocol = "Unknown" => n.rendered_after = PageModel(InvalidUrlText, TRUE)

\* -------------------------------------------------------------- redirects
\* What the worker of the job a frame polled returned.
Result(f) == f.polled[1].nav_promise.ready[1]

\* The frame consumes a response whose status is a redirect.
ConsumesRedirect(f) ==
    /\ Consumes(f)
    /\ Result(f).ok
    /\ <<Result(f).response.status.family, Result(f).response.status.variant>>
           \in RedirectArm

\* The target a redirect status carries.
Target(f) == Result(f).response.status.data

\* The URL a frame leaves to be navigated to next.
NavigatedNext(f) == UrlFromStr(f.navigation_hint[1].url)

\* C11: when a frame consumes a redirect whose target begins with "/", the
\* URL navigated to next has the scheme, host and port of the URL that was
\* fetched and the target as its path.
C11_SlashRedirectKeepsOrigin ==
    \A f \in Frames :
        ConsumesRedirect(f) /\ starts_with_slash(Target(f)) =>
            /\ f.navigation_hint # None
            /\ NavigatedNext(f).scheme = f.polled[1].nav_promise.url.scheme
            /\ NavigatedNext(f).host = f.polled[1].nav_promise.url.host
            /\ NavigatedNext(f).port = f.polled[1].nav_promise.url.port
            /\ NavigatedNext(f).path = Target(f)

\* The frame the loop runs when the user does nothing.
IdleFrame == update(Cur, Event("none", <<>>))

\* C12: when a frame consumes a redirect whose target is an absolute URL,
\* the URL navigated to next is that target.
C12_AbsoluteRedirectNavigatesToTarget ==
    /\ ConsumesRedirect(IdleFrame)
    /\ Len(Target(IdleFrame)) >= 3
    /\ Target(IdleFrame)[2] = "://"
    =>
        /\ IdleFrame.navigation_hint # None
        /\ IdleFrame.navigation_hint[1].url = Target(IdleFrame)

\* The frame that follows frame f when the user does nothing: f hands it
\* the program state, without the logs of f.
NextIdleFrame(f) ==
    update([f EXCEPT !.hlog = <<>>, !.navs = <<>>, !.polled = None], Event("none", <<>>))

\* The URL a redirect of the fetch of u to target resolves to: an absolute
\* target replaces u, a target that begins with "/" replaces only the path.
resolved(u, target) ==
    IF starts_with_slash(target) THEN [u EXCEPT !.path = target]
    ELSE UrlFromStr(target)

\* C13: the frame after the one that consumed a redirect makes one navigate
\* call, to the resolved URL, with history append enabled and the protocol
\* of the redirected job as hint; after it the tracked job is a new one
\* that fetches the resolved URL and has no result yet.
C13_RedirectRenavigatesNextFrame ==
    ConsumesRedirect(IdleFrame) /\ ~IdleFrame.crashed
            /\ ~NextIdleFrame(IdleFrame).overflow =>
        LET job == IdleFrame.polled[1]
            want == resolved(job.nav_promise.url, Target(IdleFrame))
            g == NextIdleFrame(IdleFrame)
        IN /\ IdleFrame.nav_job = None
           /\ Len(g.navs) = 1
           /\ g.navs[1].url = want
           /\ g.navs[1].add
           /\ g.navs[1].hint = Some(job.protocol)
           /\ g.nav_job # None
           /\ g.nav_job[1].nav_promise.url = want
           /\ g.nav_job[1].nav_promise.ready = None

\* ------------------------------------------------- failures and diagnostics
\* The failure kinds of the four status taxonomies (Scroll shares Gemini's).
FailureKinds ==
    {<<"Gemini", v>> : v \in {"TemporaryFailure", "ServerUnavailable", "CGIError",
                              "ProxyError", "SlowDown", "PermanentFailure", "NotFound",
                              "Gone", "ProxyRequestRefused", "BadRequest"}}
        \cup {<<"Spartan", v>> : v \in {"ClientError", "ServerError"}}
        \cup {<<"TextProtocol", "NOK">>}
        \cup {<<"Scorpion", v>> : v \in {"TemporaryError", "DownForMaintenance",
                                         "DynamicFileError", "ProxyError", "SlowDown",
                                         "TemporarilyLockedFile", "PermanentError",
                                         "FileNotFound", "FileRemoved",
                                         "ProxyRequestRefused", "Forbidden",
                                         "EditConflict", "CredentialsRequired",
                                         "BadRequest"}}

\* The certificate-related kinds.
CertificateKinds ==
    {<<fam, v>> : fam \in {"Gemini", "Scorpion"},
                  v \in {"RequiresClientCertificate", "CertificateNotAuthorized",
                         "CertificateNotValid"}}

\* The diagnostic messages of the loop.
Diagnostics(data) ==
    {NotFoundMsg(data), CertificateRequiredMsg, CertificateNotAuthorizedMsg,
     CertificateNotValidMsg}

\* C14: a frame that consumes a response whose status is a failure kind or
\* a certificate kind leaves, as the page model the renderer shows, one
\* literal block holding a diagnostic message (with the status's detail
\* text when it carries one).
C14_FailureStatusShowsDiagnostic ==
    Consumes(IdleFrame) /\ Result(IdleFrame).ok
            /\ <<Result(IdleFrame).response.status.family,
                 Result(IdleFrame).response.status.variant>> \in FailureKinds \cup CertificateKinds =>
        /\ rendered(IdleFrame).literal
        /\ rendered(IdleFrame).text \in Diagnostics(Result(IdleFrame).response.status.data)

\* C15: a frame that consumes a transport error leaves, as the page model
\* the renderer shows, one literal block holding the error's message, leaves
\* no job, and leaves the history and the current URL as they were.
C15_TransportErrorShowsMessage ==
    Consumes(IdleFrame) /\ ~Result(IdleFrame).ok =>
        /\ rendered(IdleFrame) = PageModel(Result(IdleFrame).error, TRUE)
        /\ IdleFrame.nav_job = None
        /\ IdleFrame.history = history
        /\ IdleFrame.index = index
        /\ IdleFrame.current_url = current_url

\* ---------------------------------------------------- what a fetch ends in
\* The tracked job's worker is still running.
Fetching == ~crashed /\ nav_job # None /\ nav_job[1].nav_promise.ready = None

\* What the worker of the tracked job returns when the network does outcome.
WorkerResult(outcome) ==
    fetch(nav_job[1].nav_promise.url, nav_job[1].nav_promise.request_body,
          nav_job[1].nav_promise.ssl, nav_job[1].nav_promise.protocol, outcome)

\* The worker did not return: it panicked.
WorkerAborted(result) == result.ok /\ result.response.status = DecodePanic

\* The frame that follows the worker's return, without user input.
FrameAfter(outcome) ==
    update([Cur EXCEPT !.nav_job =
                Some([nav_job[1] EXCEPT !.nav_promise.ready =
                                            Some(WorkerResult(outcome))])],
           Event("none", <<>>))

\* C16: for each of the protocols with a status taxonomy, a response whose
\* status code the protocol does not define makes the worker return, and the
\* frame that consumes the result ends with no job, the process running and
\* a literal block as the rendered page model.
C16_UndefinedCodeEndsAsPlaintext ==
    Fetching /\ nav_job[1].nav_promise.protocol \in StatusProtocols =>
        LET outcome == Outcome("", Response(UndefinedCode, Detail, Body), <<>>)
        IN /\ ~WorkerAborted(WorkerResult(outcome))
           /\ ~FrameAfter(outcome).crashed
           /\ FrameAfter(outcome).nav_job = None
           /\ rendered(FrameAfter(outcome)).literal

\* C17: whatever bytes the server sends (nothing, a status line without a
\* newline and a status line without a space among them), the worker
\* returns a value and the frame that consumes it ends with the process
\* running and the job gone.
C17_EveryResponseIsConsumed ==
    Fetching =>
        \A b \in ServerBytes(nav_job[1].nav_promise.protocol, nav_job[1].nav_promise.url) :
            /\ ~WorkerAborted(WorkerResult(Outcome("", b, <<>>)))
            /\ ~FrameAfter(Outcome("", b, <<>>)).crashed
            /\ FrameAfter(Outcome("", b, <<>>)).nav_job = None

\* C18: in each transport, a failure at any stage makes fetch return an
\* error value that carries a message.
C18_TransportFailureIsAnError ==
    Fetching =>
        \A stage \in Stages(transport(nav_job[1].nav_promise.protocol,
                                       nav_job[1].nav_promise.ssl)) :
            LET result == WorkerResult(Outcome(stage, <<>>, IoError(stage)))
            IN ~WorkerAborted(result) /\ ~result.ok /\ result.error # <<>>

\* ----------------------------------------------------------------- requests
\* The path of a URL, with "/" for an empty one.
PathOrSlash(u) == IF u.path = <<>> THEN <<"/">> ELSE u.path

\* A path without its leading slash.
Unslashed(path) ==
    IF path = <<>> THEN <<>>
    ELSE (CASE path[1] = "/" -> <<>>
            [] path[1] = "/a" -> <<"a">>
            [] path[1] = "/b" -> <<"b">>
            [] OTHER -> <<path[1]>>) \o Tail(path)

\* The row of the protocol table for a URL whose path is taken as path:
\* request body and secure flag.
TableRow(u, path, protocol) ==
    CASE protocol = "Finger" -> [body |-> Unslashed(path), secure |-> FALSE]
      [] protocol = "Gemini" -> [body |-> UrlToString(u), secure |-> TRUE]
      [] protocol = "Gopher(false)" ->
             [body |-> path \o (IF u.query = None THEN <<>> ELSE <<"\t">> \o u.query[1]),
              secure |-> FALSE]
      [] protocol = "Gopher(true)" ->
             [body |-> path \o (IF u.query = None THEN <<>> ELSE <<"\t">> \o u.query[1]),
              secure |-> TRUE]
      [] protocol = "Guppy" -> [body |-> UrlToString(u), secure |-> FALSE]
      [] protocol = "Nex" -> [body |-> path, secure |-> FALSE]
      [] protocol = "Scorpion" -> [body |-> <<"R", " ">> \o UrlToString(u), secure |-> FALSE]
      [] protocol = "Scroll" -> [body |-> UrlToString(u) \o <<" ", "en">>, secure |-> TRUE]
      [] protocol = "TextProtocol" -> [body |-> UrlToString(u), secure |-> FALSE]

\* The protocols of the table that C19 lists.
TableProtocols ==
    {"Finger", "Gemini", "Gopher(false)", "Gopher(true)", "Guppy", "Nex", "Scorpion",
     "Scroll", "TextProtocol"}

\* The fixed default port of a protocol.
DefaultPort(protocol) ==
    CASE protocol = "Finger" -> 79
      [] protocol = "Gemini" -> 1965
      [] protocol \in {"Gopher(false)", "Gopher(true)"} -> 70
      [] protocol = "Guppy" -> 6775
      [] protocol = "Nex" -> 1900
      [] protocol = "Scorpion" -> 1517
      [] protocol = "Scroll" -> 5699
      [] protocol = "Spartan" -> 300
      [] protocol = "TextProtocol" -> 1961

\* The tracked job's thread connects to the URL's host, at the URL's own
\* port when it has one and at the protocol's default port otherwise.
PortAsSpecified ==
    LET p == nav_job[1].nav_promise
    IN /\ p.addr.host = p.url.host
       /\ p.addr.port = IF p.url.port # None THEN p.url.port[1] ELSE DefaultPort(p.protocol)

\* C19, as stated: the request body and secure flag of every tracked job of
\* a listed protocol are the table's row for the job's URL, with the URL's
\* path as it is, and the port is the URL's or else the protocol's default.
C19_RequestMatchesTableLiteral ==
    nav_job # None /\ nav_job[1].nav_promise.protocol \in TableProtocols =>
        LET p == nav_job[1].nav_promise
            row == TableRow(p.url, p.url.path, p.protocol)
        IN /\ p.request_body = row.body
           /\ p.ssl = row.secure
           /\ PortAsSpecified

\* C19, amended: the same with "/" in place of an empty path.
C19_RequestMatchesTable ==
    nav_job # None /\ nav_job[1].nav_promise.protocol \in TableProtocols =>
        LET p == nav_job[1].nav_promise
            row == TableRow(p.url, PathOrSlash(p.url), p.protocol)
        IN /\ p.request_body = row.body
           /\ p.ssl = row.secure
           /\ PortAsSpecified

\* C19 witness: a Nex job for a URL with an empty path and its own port is
\* tracked; its request is "/" and its thread connects to that port.
C19_Witness ==
    /\ nav_job # None
    /\ nav_job[1].nav_promise.protocol = "Nex"
    /\ nav_job[1].nav_promise.url.path = <<>>
    /\ nav_job[1].nav_promise.url.port = Some(7070)
    /\ nav_job[1].nav_promise.request_body = <<"/">>
    /\ nav_job[1].nav_promise.addr.port = 7070

\* C20: for a Spartan URL the bytes written are host, space, path ("/" for
\* an empty one), space, the query's byte length (0 without a query), CRLF,
\* and then the query's bytes and nothing else.
C20_SpartanWireBytes ==
    nav_job # None /\ nav_job[1].nav_promise.protocol = "Spartan" =>
        LET p == nav_job[1].nav_promise
            query == IF p.url.query = None THEN <<>> ELSE p.url.query[1]
        IN p.request =
               <<p.url.host, " ">> \o PathOrSlash(p.url)
                   \o <<" ", LenToString(QueryLen(query)), "\r\n">> \o query

\* --------------------------------------------------------- plaintext flag
\* C21: the plaintext flag handed to the content parser is true exactly when
\* the caller's hint is Plaintext or the path of the URL ends in ".txt": true
\* for such a path that a query follows, false for any other path whatever
\* the query is.
C21_PlaintextFlagFollowsPath ==
    \A n \in NavigateCalls(IdleFrame) :
        n.spawned =>
            n.job_after[1].plaintext
                = (n.hint = Some("Plaintext") \/ ends_with_txt(n.url.path))

\* ---------------------------------------------------------- status decode
\* C22: a Gemini or Scroll status line decodes by its code: 10 and 11 are
\* input-required (11 sensitive), 20 to 29 success with the meta, 30 and 31
\* the temporary and the permanent redirect with the meta as target, 40 to
\* 44, 50 to 53 and 59 ten distinct failures with the meta, 60, 61 and 62
\* the three certificate statuses; "51 Not Found" is NotFound("Not Found").
C22_GeminiStatusTable ==
    Fetching /\ nav_job[1].nav_promise.protocol \in {"Gemini", "Scroll"} =>
        LET G(v, d, sens) == MkStatus("Gemini", v, d, sens)
            Decoded(c, meta) ==
                WorkerResult(Outcome("", Response(c, meta, Body), <<>>)).response.status
            Failures == <<<<"40", "TemporaryFailure">>, <<"41", "ServerUnavailable">>,
                          <<"42", "CGIError">>, <<"43", "ProxyError">>,
                          <<"44", "SlowDown">>, <<"50", "PermanentFailure">>,
                          <<"51", "NotFound">>, <<"52", "Gone">>,
                          <<"53", "ProxyRequestRefused">>, <<"59", "BadRequest">>>>
            Certificates == <<<<"60", "RequiresClientCertificate">>,
                              <<"61", "CertificateNotAuthorized">>,
                              <<"62", "CertificateNotValid">>>>
        IN /\ \A meta \in {Detail, <<"Not", " ", "Found">>} :
                 /\ Decoded("10", meta) = G("InputExpected", meta, FALSE)
                 /\ Decoded("11", meta) = G("InputExpected", meta, TRUE)
                 /\ \A c \in {"20", "21", "22", "23", "24", "25", "26", "27", "28", "29"} :
                        Decoded(c, meta) = G("Success", meta, FALSE)
                 /\ Decoded("30", meta) = G("TemporaryRedirect", meta, FALSE)
                 /\ Decoded("31", meta) = G("PermanentRedirect", meta, FALSE)
                 /\ \A k \in 1..Len(Failures) :
                        Decoded(Failures[k][1], meta) = G(Failures[k][2], meta, FALSE)
                 /\ \A k \in 1..Len(Certificates) :
                        /\ Decoded(Certificates[k][1], meta).family = "Gemini"
                        /\ Decoded(Certificates[k][1], meta).variant = Certificates[k][2]
           /\ Cardinality({Failures[k][2] : k \in 1..Len(Failures)}) = 10
           /\ Decoded("51", <<"Not", " ", "Found">>).data = <<"Not", " ", "Found">>

\* C22 witness: the worker of a Gemini or Scroll job returned what it
\* decoded from a "51" response: NotFound with the meta.
C22_Witness ==
    /\ nav_job # None
    /\ nav_job[1].nav_promise.protocol \in {"Gemini", "Scroll"}
    /\ nav_job[1].nav_promise.ready # None
    /\ nav_job[1].nav_promise.ready[1].ok
    /\ nav_job[1].nav_promise.ready[1].response.status
           = MkStatus("Gemini", "NotFound", Detail, FALSE)

\* C23: every code from 10 to 19 decodes to input-required with the meta as
\* the prompt, sensitive for 11 only.
C23_EveryInputCodeIsInputRequired ==
    Fetching /\ nav_job[1].nav_promise.protocol \in {"Gemini", "Scroll"} =>
        \A c \in InputCodes :
            WorkerResult(Outcome("", Response(c, Detail, <<>>), <<>>)).response.status
                = MkStatus("Gemini", "InputExpected", Detail, c = "11")

\* ------------------------------------------------------------------ guppy
\* C24: a Guppy exchange of a first datagram with the content-type line and
\* a chunk, further chunks and the closing single-line datagram is
\* reassembled to the content-type line followed by the chunks' payloads in
\* arrival order without their NUL bytes, and decodes to the success status
\* that carries the content type, with those payloads as the body.
C24_GuppyReassembly ==
    Fetching /\ nav_job[1].nav_promise.protocol = "Guppy" =>
        LET RECURSIVE Concat(_)
            Concat(seqs) == IF seqs = <<>> THEN <<>> ELSE Head(seqs) \o Concat(Tail(seqs))
        IN
        \A payloads \in GuppyPayloadLists :
            WorkerResult(Outcome("", GuppyExchange(<<"text/gemini">>, payloads), <<>>))
                = Ok(ServerResponse(SelectSeq(Concat(payloads), LAMBDA b : b # Nul),
                                    MkStatus("_Success", "_Success", <<"text/gemini">>,
                                             FALSE)))

\* C31: the receive loop is stop-and-wait.  With a datagram's lines counted
\* as the zero-filled receive buffer holds them, the loop ends at the first
\* datagram with exactly one line after its header and sends nothing for
\* it; for every other datagram it receives, the payload is appended, then
\* one acknowledgment with the datagram's sequence number is sent, and only
\* then is the next datagram received.
C31_GuppyStopAndWait ==
    Fetching /\ nav_job[1].nav_promise.protocol = "Guppy" =>
        \A b \in ServerBytes("Guppy", nav_job[1].nav_promise.url) :
            LET L == recv_loop(b, <<>>, <<>>).log
            IN \A i \in 1..Len(L) :
                   L[i][1] = "recv" =>
                       IF Len(lines(L[i][2] \o <<Nul>>)) - 1 = 1
                       THEN /\ i = Len(L)
                            /\ recv_loop(b, <<>>, <<>>).state = "completed"
                       ELSE /\ Len(L) >= i + 2
                            /\ L[i + 1][1] = "append"
                            /\ L[i + 2] =
                                   <<"send",
                                     split(lines(L[i][2] \o <<Nul>>)[1], " ")[1]
                                         \o <<"\r\n">>>>
                            /\ Len(L) > i + 2 => L[i + 3][1] = "recv"

\* ======================================================== content parsers
\* The page models of the handlers as their parsers build them from the
\* bytes of a response: lines for Gemtext and Nex, blocks for Scorpion.
\* A line is a sequence of tokens: its prefix ("=>", "#", ...), its
\* words, and the whitespace between them; "\n" ends a line.

\* The three backquotes that start a toggle line (a backquote cannot stand
\* in a string here).
Backquotes == "<3 backquotes>"

\* char::is_whitespace, for the tokens of a line.
Whitespace == {" ", "\t"}

\* str::trim.
trim(str) ==
    LET kept == {i \in 1..Len(str) : str[i] \notin Whitespace}
    IN IF kept = {} THEN <<>>
       ELSE SubSeq(str, CHOOSE i \in kept : \A j \in kept : i <= j,
                        CHOOSE i \in kept : \A j \in kept : j <= i)

\* [&str]::join("\n").
RECURSIVE join_lines(_)
join_lines(ls) ==
    IF ls = <<>> THEN <<>>
    ELSE IF Len(ls) = 1 THEN ls[1]
    ELSE ls[1] \o <<"\n">> \o join_lines(Tail(ls))

\* LineType::from_str: the first prefix the line starts with, in the order
\* of the tests ("###" starts with "##" and with "#").
LineTypeFromStr(s) ==
    LET Prefixes(tok) == CASE tok = "###" -> {"#", "##", "###"}
                           [] tok = "##" -> {"#", "##"}
                           [] OTHER -> {tok}
        starts_with(prefix) == Len(s) > 0 /\ prefix \in Prefixes(s[1])
    IN CASE starts_with("=>") -> "Link"
         [] starts_with("###") -> "Heading3"
         [] starts_with("##") -> "Heading2"
         [] starts_with("#") -> "Heading1"
         [] starts_with(">") -> "Quote"
         [] starts_with(Backquotes) -> "PreformatToggle"
         [] starts_with("*") -> "List"
         [] starts_with("=:") -> "Prompt"
         [] OTHER -> "Text"

\* A toggle that only ever turns the mode on.
toggle_sticky(preformat_line, line_type) ==
    preformat_line \/ line_type = "PreformatToggle"

\* GemtextLine::from_str: a toggle line flips the preformatted mode.
toggle(preformat_line, line_type) ==
    IF line_type = "PreformatToggle" THEN ~preformat_line ELSE preformat_line

\* A link line whose label is everything after the target, untrimmed.
link_parts_untrimmed(s) ==
    LET content == trim(Tail(s))
        ws == {i \in 1..Len(content) : content[i] \in Whitespace}
    IN IF ws = {} THEN [content |-> content, path |-> Some(content)]
       ELSE LET i == CHOOSE k \in ws : \A j \in ws : k <= j
            IN [content |-> SubSeq(content, i + 1, Len(content)),
                path |-> Some(SubSeq(content, 1, i - 1))]

\* GemtextLine::from_str for a Link or a Prompt line: the text after the
\* two-byte prefix is trimmed and split at its first whitespace into the
\* path and the display string, which is trimmed; without whitespace the
\* text is both.
link_parts(s) ==
    LET content == trim(Tail(s))
        ws == {i \in 1..Len(content) : content[i] \in Whitespace}
    IN IF ws = {} THEN [content |-> content, path |-> Some(content)]
       ELSE LET i == CHOOSE k \in ws : \A j \in ws : k <= j
            IN [content |-> trim(SubSeq(content, i + 1, Len(content))),
                path |-> Some(SubSeq(content, 1, i - 1))]

\* GemtextLine::from_str: the line, and the handler's mode after it.
GemtextLineFromStr(s, plaintext, preformat_line) ==
    IF plaintext \/ s = <<>>
    THEN [line |-> [line_type |-> "Text", content |-> s, path |-> None,
                    preformatted |-> preformat_line],
          preformat_line |-> preformat_line]
    ELSE LET line_type == LineTypeFromStr(s)
             mode == toggle(preformat_line, line_type)
             parts == IF mode /\ line_type # "PreformatToggle"
                      THEN [content |-> s, path |-> None]
                      ELSE CASE line_type \in {"Link", "Prompt"} -> link_parts(s)
                             [] line_type = "PreformatToggle" ->
                                    [content |-> <<>>, path |-> None]
                             [] OTHER -> [content |-> s, path |-> None]
         IN [line |-> [line_type |-> line_type, content |-> parts.content,
                       path |-> parts.path, preformatted |-> mode],
             preformat_line |-> mode]

\* A parse that starts in the mode the last page ended in.
preformat_kept(h) == h.preformat_line

\* Gemtext::parse_content: the mode a parse starts in.
preformat_reset(h) == FALSE

\* Gemtext::parse_content: the lines equal to "." are dropped; with the
\* plaintext flag the others are joined into one Text line, without it each
\* becomes a line of the page, in order.
gemtext_parse_content(h, response, plaintext) ==
    LET kept == SelectSeq(lines(response), LAMBDA line : line # <<".">>)
        RECURSIVE from_lines(_, _, _)
        from_lines(ls, page, mode) ==
            IF ls = <<>> THEN [current_page_contents |-> page, preformat_line |-> mode]
            ELSE LET r == GemtextLineFromStr(Head(ls), plaintext, mode)
                 IN from_lines(Tail(ls), Append(page, r.line), r.preformat_line)
    IN IF plaintext
       THEN LET r == GemtextLineFromStr(join_lines(kept), plaintext, preformat_reset(h))
            IN [current_page_contents |-> <<r.line>>, preformat_line |-> r.preformat_line]
       ELSE from_lines(kept, <<>>, preformat_reset(h))

\* NexLine::from_str and Nex::parse_content: with the plaintext flag the
\* response is one line, without it each of its lines is one; a line that
\* starts with "=> " is a link.
nex_parse_content(h, response, plaintext) ==
    LET NexLine(str) ==
            [text |-> str, is_link |-> Len(str) >= 2 /\ str[1] = "=>" /\ str[2] = " "]
        ls == lines(response)
    IN [current_page_contents |->
            IF plaintext THEN <<NexLine(response)>>
            ELSE [i \in 1..Len(ls) |-> NexLine(ls[i])]]

\* The Gopher handler: the lines before the first "."-only line, each as
\* its tab-delimited fields; with the plaintext flag the body as one literal
\* record.
gopher_parse_content(h, response, plaintext) ==
    LET ls == lines(response)
        dots == {i \in 1..Len(ls) : ls[i] = <<".">>}
        last == IF dots = {} THEN Len(ls)
                ELSE (CHOOSE i \in dots : \A j \in dots : i <= j) - 1
    IN [current_page_contents |->
            IF plaintext THEN <<[fields |-> <<response>>, literal |-> TRUE]>>
            ELSE [i \in 1..last |-> [fields |-> split(ls[i], "\t"), literal |-> FALSE]]]

\* ----------------------------------------------------- scorpion, by bytes
\* A byte is its value, a string the values of its chars.

\* impl From<u8> for BlockType.
BlockTypeFrom(value) ==
    CASE value = 0 -> "Paragraph"
      [] value = 1 -> "Heading1"
      [] value = 2 -> "Heading2"
      [] value = 3 -> "Heading3"
      [] value = 4 -> "Heading4"
      [] value = 5 -> "Heading5"
      [] value = 6 -> "Heading6"
      [] value = 8 -> "Hyperlink"
      [] value = 9 -> "HyperlinkInput"
      [] value = 10 -> "HyperlinkInteractive"
      [] value = 11 -> "AlternateService"
      [] value = 12 -> "Blockquote"
      [] value = 13 -> "Preformatted"
      [] value = 15 -> "Metadata"
      [] OTHER -> "Paragraph"

\* Scorpion::parse_body_data for a block whose encoding is not PC (the high
\* nibble of its first byte is not 1): the control codes are skipped, every
\* other byte is pushed as the char of its value.
parse_body_data(body_data) ==
    SelectSeq(body_data,
              LAMBDA b : b \notin {2, 5, 6, 7, 9, 10, 16, 17, 18, 19, 20, 21, 22, 23, 24,
                                   25, 27, 142, 143})

\* A block loop that runs while three bytes are left.
MinBlock_three == 6 \div 2

\* Scorpion::parse_content: the loop runs while more than 6 bytes are left.
MinBlock == 6

\* Scorpion::parse_content without the plaintext flag: the blocks decoded
\* from offset on, after those decoded before; an index or a slice that
\* runs past the end of the response is a fault.
RECURSIVE scorpion_blocks(_, _, _)
scorpion_blocks(response, offset, blocks) ==
    IF ~(offset + MinBlock < Len(response)) THEN [fault |-> FALSE, blocks |-> blocks]
    ELSE LET at(k) == response[k + 1]
             block_type == BlockTypeFrom(at(offset) % 16)
             attribute_length == at(offset + 1) * 256 + at(offset + 2)
             attribute_end == offset + 3 + attribute_length
             body_length == at(attribute_end) * 65536 + at(attribute_end + 1) * 256
                                + at(attribute_end + 2)
             body_end == attribute_end + 3 + body_length
         IN IF attribute_end > Len(response) \/ attribute_end + 2 >= Len(response)
            THEN [fault |-> TRUE, blocks |-> blocks]
            ELSE IF body_end > Len(response) THEN [fault |-> TRUE, blocks |-> blocks]
            ELSE scorpion_blocks(
                     response, body_end,
                     Append(blocks,
                            [block_type |-> block_type,
                             attribute_data |-> SubSeq(response, offset + 4, attribute_end),
                             body_data |-> parse_body_data(
                                               SubSeq(response, attribute_end + 4, body_end)),
                             plaintext |-> FALSE]))

\* ------------------------------------------------------ pages to parse
MaxLines == 4

\* #[derive(Default)] of the handlers: empty strings, no lines, no blocks,
\* the preformatted mode off.
DefaultPages ==
    [h \in Handlers |->
        IF h = "gemtext" THEN [current_page_contents |-> <<>>, preformat_line |-> FALSE]
        ELSE [current_page_contents |-> <<>>]]

\* ProtocolHandler::parse_content of the handler named: the handler after
\* the parse, and whether the parse faulted (the handler is then as before).
handler_parse_content(name, h, response, plaintext) ==
    CASE name = "gemtext" ->
             [fault |-> FALSE, handler |-> gemtext_parse_content(h, response, plaintext)]
      [] name = "gopher" ->
             [fault |-> FALSE, handler |-> gopher_parse_content(h, response, plaintext)]
      [] name = "nex" ->
             [fault |-> FALSE, handler |-> nex_parse_content(h, response, plaintext)]
      [] name = "scorpion" ->
             IF plaintext
             THEN [fault |-> FALSE,
                   handler |-> [current_page_contents |->
                                    <<[block_type |-> "Paragraph", attribute_data |-> <<>>,
                                       body_data |-> response, plaintext |-> TRUE]>>]]
             ELSE LET r == scorpion_blocks(response, 0, <<>>)
                  IN [fault |-> r.fault,
                      handler |-> IF r.fault THEN h
                                  ELSE [current_page_contents |-> r.blocks]]
      [] OTHER -> [fault |-> FALSE, handler |-> [current_page_contents |-> response]]

MaxBlocks == 2

\* Block streams of up to MaxBlocks blocks, each a paragraph "abc" or a
\* hyperlink to "/" with the body "a".
BlockLists ==
    LET Blocks == {[type |-> 0, attribute |-> <<>>, body |-> <<97, 98, 99>>],
                   [type |-> 8, attribute |-> <<47>>, body |-> <<97>>]}
    IN UNION {[1..n -> Blocks] : n \in 1..MaxBlocks}

\* The bytes of a list of blocks; a block is its type and encoding, the
\* attribute's length in two bytes, the attribute, the body's length in
\* three bytes, the body.
RECURSIVE StreamOf(_)
StreamOf(bs) ==
    IF bs = <<>> THEN <<>>
    ELSE LET b == Head(bs)
         IN <<b.type, Len(b.attribute) \div 256, Len(b.attribute) % 256>> \o b.attribute
                \o <<0, Len(b.body) \div 256, Len(b.body) % 256>> \o b.body
                \o StreamOf(Tail(bs))

\* The responses a handler is given to parse.  Gemtext: up to MaxLines
\* lines, each a toggle or a link line, or each a toggle or an empty line;
\* the two-line ones also with a "." line in and after them; a link line
\* alone, with and without whitespace after the prefix and at the end, with
\* no label, a one-word and a two-word label.  Scorpion: every stream of
\* fewer than 6 bytes of the values 0 and 97, and every block stream cut
\* after any number of its bytes.
Pages(name) ==
    CASE name = "gemtext" ->
             LET Link == <<"=>", " ", "/foo.gmi", " ", "Foo">>
                 Lists == UNION {[1..n -> {<<Backquotes>>, Link}]
                                     \cup [1..n -> {<<Backquotes>>, <<>>}] :
                                     n \in 0..MaxLines}
             IN {join_lines(ls) : ls \in Lists}
                    \cup {join_lines(<<ls[1], <<".">>, ls[2], <<".">>>>) :
                              ls \in [1..2 -> {<<Backquotes>>, Link, <<>>}]}
                    \cup {<<"=>">> \o pre \o <<"/foo.gmi">> \o sep \o label \o post :
                              pre \in {<<>>, <<" ">>}, sep \in {<<" ">>, <<"\t", " ">>},
                              label \in {<<>>, <<"Foo">>, <<"Foo", " ", "bar">>},
                              post \in {<<>>, <<" ">>}}
      [] name = "gopher" ->
             {<<>>, <<"i", "text", "\t", "\t", "h", "\t", "70">>,
              <<"1", "menu", "\t", "/a", "\t", "h", "\t", "70", "\n", ".", "\n", "more">>}
      [] name = "nex" ->
             {<<>>, <<"text">>, <<"=>", " ", "/a">>, <<"=>", "/a">>,
              <<"text", "\n", "=>", " ", "/a", "\n">>}
      [] name = "scorpion" ->
             UNION {[1..n -> {0, 97}] : n \in 0..5}
                 \cup UNION {{SubSeq(StreamOf(bs), 1, n) : n \in 0..Len(StreamOf(bs))} :
                                 bs \in BlockLists}
      [] OTHER -> {<<>>, <<"body">>, <<"body", "\n", "more">>}

\* The handler that parses and renders the pages of the current URL.
Shown == HandlerOf(ProtocolFromUrl(current_url))

\* The browser shows the page of a URL: nothing is pending.
ParserInit ==
    /\ \E start \in {<<sc, "://", "h">> :
                           sc \in {"finger", "gemini", "gopher", "nex", "scorpion", "text"}} :
           /\ url = start
           /\ current_url = UrlFromStr(start)
    /\ history = <<>>
    /\ index = 0
    /\ page_content = <<>>
    /\ content_handlers = DefaultPages
    /\ navigation_hint = None
    /\ nav_job = None
    /\ input_request = None
    /\ detached = 0
    /\ crashed = FALSE
    /\ calls = [t \in 1..2 |-> [op |-> "", url |-> <<>>, held |-> 0]]

\* ContentHandlers::parse_content for a response of the current URL's
\* protocol: its handler parses it, with or without the plaintext flag.
Parse ==
    /\ ~crashed
    /\ \E response \in Pages(Shown), plaintext \in BOOLEAN :
           LET r == handler_parse_content(Shown, content_handlers[Shown], response,
                                          plaintext)
           IN /\ crashed' = r.fault
              /\ content_handlers' = [content_handlers EXCEPT ![Shown] = r.handler]
    /\ UNCHANGED <<history, index, url, current_url, page_content, navigation_hint,
                   nav_job, input_request, detached, calls>>

ParserNext == Parse

ParserSpec == ParserInit /\ [][ParserNext]_vars

C26_LinkLineTargetAndLabel ==
    Shown = "gemtext" =>
        /\ \A pre \in {<<>>, <<" ">>}, sep \in {<<" ">>, <<"\t", " ">>},
              label \in {<<>>, <<"Foo">>, <<"Foo", " ", "bar">>}, post \in {<<>>, <<" ">>} :
               LET b == <<"=>">> \o pre \o <<"/foo.gmi">> \o sep \o label \o post
                   page == gemtext_parse_content(content_handlers.gemtext, b, FALSE)
                               .current_page_contents
               IN /\ b \in Pages("gemtext")
                  /\ Len(page) = 1
                  /\ page[1].line_type = "Link"
                  /\ page[1].path = Some(<<"/foo.gmi">>)
                  /\ page[1].content = IF label = <<>> THEN <<"/foo.gmi">> ELSE label
        /\ gemtext_parse_content(content_handlers.gemtext,
                                 <<"=>", " ", "/foo.gmi", " ", "Foo">>, FALSE)
               .current_page_contents
             = <<[line_type |-> "Link", content |-> <<"Foo">>,
                  path |-> Some(<<"/foo.gmi">>), preformatted |-> FALSE]>>

\* C26 witness: the page parsed is one link line with a two-word label
\* that whitespace surrounded.
C26_Witness ==
    /\ Shown = "gemtext"
    /\ content_handlers.gemtext.current_page_contents
           = <<[line_type |-> "Link", content |-> <<"Foo", " ", "bar">>,
                path |-> Some(<<"/foo.gmi">>), preformatted |-> FALSE]>>

\* --------------------------------------------------------------- scorpion
\* C27: the nine bytes 00 00 00 00 00 03 'a' 'b' 'c' decode to exactly one
\* paragraph block with an empty attribute and the body "abc"; every stream
\* of fewer than 6 bytes decodes to no block.
C27_ScorpionExampleAndShortStreams ==
    Shown = "scorpion" =>
        LET decode(response) ==
                handler_parse_content("scorpion", content_handlers.scorpion, response, FALSE)
        IN /\ decode(<<0, 0, 0, 0, 0, 3, 97, 98, 99>>)
                  = [fault |-> FALSE,
                     handler |-> [current_page_contents |->
                                      <<[block_type |-> "Paragraph",
                                         attribute_data |-> <<>>,
                                         body_data |-> <<97, 98, 99>>,
                                         plaintext |-> FALSE]>>]]
           /\ <<0, 0, 0, 0, 0, 3, 97, 98, 99>> \in Pages("scorpion")
           /\ \A response \in Pages("scorpion") :
                  Len(response) < 6 =>
                      decode(response)
                          = [fault |-> FALSE, handler |-> [current_page_contents |-> <<>>]]

\* C27 witness: the Scorpion page parsed is the one paragraph "abc".
C27_Witness ==
    /\ Shown = "scorpion"
    /\ ~crashed
    /\ content_handlers.scorpion.current_page_contents
           = <<[block_type |-> "Paragraph", attribute_data |-> <<>>,
                body_data |-> <<97, 98, 99>>, plaintext |-> FALSE]>>

\* C28: on a block stream cut short (fewer bytes left than a header, or a
\* declared attribute or body length that runs past the end) the parse
\* stops without a fault and yields the blocks complete before the cut.
C28_TruncatedStreamYieldsCompleteBlocks ==
    Shown = "scorpion" =>
        \A bs \in BlockLists : \A n \in 0..(Len(StreamOf(bs)) - 1) :
            LET r == handler_parse_content("scorpion", content_handlers.scorpion,
                                           SubSeq(StreamOf(bs), 1, n), FALSE)
                complete == {k \in 0..Len(bs) : Len(StreamOf(SubSeq(bs, 1, k))) <= n}
                k == CHOOSE i \in complete : \A j \in complete : j <= i
            IN /\ ~r.fault
               /\ r.handler.current_page_contents
                      = [i \in 1..k |->
                            [block_type |-> BlockTypeFrom(bs[i].type % 16),
                             attribute_data |-> bs[i].attribute,
                             body_data |-> bs[i].body,
                             plaintext |-> FALSE]]

\* C38: a stream that is the concatenation of n well-formed blocks decodes
\* to exactly those n blocks, in order, also when the last block is a bare
\* header: no attribute and no body.
C38_EveryCompleteBlockIsYielded ==
    Shown = "scorpion" =>
        LET Bare == [type |-> 0, attribute |-> <<>>, body |-> <<>>]
        IN \A bs \in BlockLists \cup {<<Bare>>}
                         \cup {Append(l, Bare) : l \in BlockLists}
                         \cup {<<Bare>> \o l : l \in BlockLists} :
               handler_parse_content("scorpion", content_handlers.scorpion,
                                     StreamOf(bs), FALSE)
                   = [fault |-> FALSE,
                      handler |->
                          [current_page_contents |->
                               [i \in 1..Len(bs) |->
                                   [block_type |-> BlockTypeFrom(bs[i].type % 16),
                                    attribute_data |-> bs[i].attribute,
                                    body_data |-> bs[i].body,
                                    plaintext |-> FALSE]]]]

\* ----------------------------------------------------------------- purity
\* C29: for every handler, parsing a body with a plaintext flag after any
\* sequence of earlier parses gives the page model that parsing it from a
\* fresh handler gives, also after a Gemtext page that ended inside an open
\* preformatted block: nothing of the earlier page remains.
C29_ParseReplacesThePage ==
    \A response \in Pages(Shown), plaintext \in BOOLEAN :
        LET now == handler_parse_content(Shown, content_handlers[Shown], response,
                                         plaintext)
            fresh == handler_parse_content(Shown, DefaultPages[Shown], response, plaintext)
        IN /\ now.fault = fresh.fault
           /\ ~now.fault => now.handler = fresh.handler

\* C29 witness: the Gemtext page parsed last ended inside an open
\* preformatted block, after its opening toggle and a line.
C29_Witness ==
    /\ Shown = "gemtext"
    /\ content_handlers.gemtext.preformat_line
    /\ Len(content_handlers.gemtext.current_page_contents) = 2
    /\ content_handlers.gemtext.current_page_contents[2].preformatted
    /\ content_handlers.gemtext.current_page_contents[2].line_type = "Link"

\* ---------------------------------------------------------- input requests
\* C30: when a frame consumes an input-required status, it leaves an input
\* request whose prompt and sensitivity are the status's and whose
\* destination is the URL that was fetched; when the user submits a text,
\* the navigation that follows goes to the destination, "?" and the text
\* with history append enabled; and the submitted request is gone once the
\* frame of the submission is over.
C30_InputRequestRoundTrip ==
    /\ \A f \in Frames :
           /\ Consumes(f)
           /\ Result(f).ok
           /\ <<Result(f).response.status.family, Result(f).response.status.variant>>
                  \in InputArm
           => /\ ~f.crashed
              /\ f.input_request =
                     Some(InputRequest(Result(f).response.status.data,
                                       Result(f).response.status.sensitive,
                                       UrlToString(f.polled[1].nav_promise.url)))
    /\ \A t \in Inputs :
           LET f == update(Cur, Event("submit", t))
           IN Possible(Event("submit", t)) =>
                  /\ input_request[1].destination # ProfileNewUrl =>
                         /\ Len(f.navs) = 1
                         /\ f.navs[1].url =
                                UrlFromStr(input_request[1].destination \o <<"?">> \o t)
                         /\ f.navs[1].add
                  /\ ~f.crashed =>
                         f.input_request = None \/ ~f.input_request[1].completed

\* --------------------------------------------------------- redirect loops
\* A peer that answers every fetch with a redirect: to "/a", to "/b", to
\* "/b" with a query, or to an absolute URL.
PeerRedirects ==
    /\ ~crashed
    /\ nav_job # None
    /\ nav_job[1].nav_promise.ready = None
    /\ \E c \in RedirectCodes(nav_job[1].nav_promise.protocol),
          t \in RedirectTargets(nav_job[1].nav_promise.url) \cup {<<"/a">>} :
           nav_job' = Some([nav_job[1] EXCEPT !.nav_promise.ready =
                               Some(fetch(nav_job[1].nav_promise.url,
                                          nav_job[1].nav_promise.request_body,
                                          nav_job[1].nav_promise.ssl,
                                          nav_job[1].nav_promise.protocol,
                                          Outcome("", Response(c, t, <<>>), <<>>)))])
    /\ UNCHANGED <<history, index, url, current_url, page_content, content_handlers,
                   navigation_hint, input_request, detached, crashed, calls>>

RedirectNext ==
    \/ UpdateIdle
    \/ PeerRedirects

\* The browser started on a URL of a protocol that has redirects, with the
\* user idle; the peer keeps answering and the loop keeps running frames.
\* The frame's weak fairness, WF_vars(UpdateIdle), is written out with the
\* frame's enabling condition: the frame is possible, within the bounds,
\* and changes the state.
RedirectSpec ==
    /\ \E start \in StartUrls :
           /\ RedirectCodes(ProtocolFromUrl(UrlFromStr(start))) # {}
           /\ New(start)
    /\ [][RedirectNext]_vars
    /\ WF_vars(PeerRedirects)
    /\ \/ []<>~(/\ Possible(Event("none", <<>>))
                /\ ~IdleFrame.overflow
                /\ \E k \in DOMAIN Cur \ {"hlog", "navs", "polled", "overflow"} :
                       IdleFrame[k] # Cur[k])
       \/ []<><<UpdateIdle>>_vars

\* C32: no loop detection or hop limit applies to redirects.  Against a peer
\* that answers every fetch with a redirect, the frame after each consumed
\* redirect issues a new fetch, and the machine never settles without one:
\* a fetch is outstanding again and again, until the history has reached
\* the bound of the model.
C32_RedirectsNeverSettle ==
    /\ [](ConsumesRedirect(IdleFrame) /\ ~NextIdleFrame(IdleFrame).overflow =>
              /\ ~IdleFrame.crashed
              /\ Len(NextIdleFrame(IdleFrame).navs) = 1
              /\ NextIdleFrame(IdleFrame).navs[1].spawned
              /\ NextIdleFrame(IdleFrame).nav_job # None
              /\ NextIdleFrame(IdleFrame).nav_job[1].nav_promise.ready = None)
    /\ []<>(Fetching \/ IdleFrame.overflow)

\* C32 witness: a fetch is outstanding for the URL that a redirect of the
\* start URL led to.
C32_Witness ==
    /\ Fetching
    /\ Len(history) = 2
    /\ nav_job[1].nav_promise.url = history[2].url
    /\ history[2].url.path = <<"/b">>
    /\ history[1].url.path # <<"/b">>

\* ----------------------------------------------------- the history's locks
\* The history functions called from threads: each locks the mutexes of
\* HISTORY and HISTORY_INDEX it uses, one after the other, runs, and drops
\* its guards when it returns.

\* The mutexes a history function locks, in the order it locks them.
LockOrder(op) ==
    CASE op \in {"add_entry", "back", "forward"} -> <<"HISTORY", "HISTORY_INDEX">>
      [] op = "remove_latest_entry" -> <<"HISTORY">>
      [] op = "can_go_forward" -> <<"HISTORY_INDEX", "HISTORY">>
      [] op = "can_go_back" -> <<"HISTORY_INDEX">>
      [] OTHER -> <<>>

\* A thread enters a history function; add_entry is given a URL, and is
\* entered only while the history has room for its entry.
Call ==
    /\ ~crashed
    /\ \E t \in DOMAIN calls,
          op \in {"add_entry", "remove_latest_entry", "back", "forward",
                  "can_go_forward", "can_go_back"},
          u \in TypedUrls :
           /\ calls[t].op = ""
           /\ op = "add_entry" =>
                  Len(history) + Cardinality({o \in DOMAIN calls :
                                                  calls[o].op = "add_entry"}) < MaxHist
           /\ calls' = [calls EXCEPT ![t] = [op |-> op,
                                             url |-> IF op = "add_entry" THEN u ELSE <<>>,
                                             held |-> 0]]
    /\ UNCHANGED <<history, index, url, current_url, page_content, content_handlers,
                   navigation_hint, nav_job, input_request, detached, crashed>>

\* Mutex::lock: a thread gets the next mutex of its function once no thread
\* holds it.
Acquire ==
    /\ ~crashed
    /\ \E t \in DOMAIN calls :
           /\ calls[t].held < Len(LockOrder(calls[t].op))
           /\ \A o \in DOMAIN calls :
                  LockOrder(calls[t].op)[calls[t].held + 1]
                      \notin {LockOrder(calls[o].op)[k] : k \in 1..calls[o].held}
           /\ calls' = [calls EXCEPT ![t].held = @ + 1]
    /\ UNCHANGED <<history, index, url, current_url, page_content, content_handlers,
                   navigation_hint, nav_job, input_request, detached, crashed>>

\* With its mutexes locked the function runs and returns, and its guards
\* are dropped.
Return ==
    /\ ~crashed
    /\ \E t \in DOMAIN calls :
           /\ calls[t].op # ""
           /\ calls[t].held = Len(LockOrder(calls[t].op))
           /\ LET s == CASE calls[t].op = "add_entry" ->
                                add_entry(Cur, UrlFromStr(calls[t].url),
                                          ProtocolFromUrl(UrlFromStr(calls[t].url)))
                         [] calls[t].op = "remove_latest_entry" -> remove_latest_entry(Cur)
                         [] calls[t].op = "back" -> back(Cur)
                         [] calls[t].op = "forward" -> forward(Cur)
                         [] OTHER -> Cur
              IN /\ history' = s.history
                 /\ index' = s.index
                 /\ crashed' = s.crashed
           /\ calls' = [calls EXCEPT ![t] = [op |-> "", url |-> <<>>, held |-> 0]]
    /\ UNCHANGED <<url, current_url, page_content, content_handlers, navigation_hint,
                   nav_job, input_request, detached>>

LockNext ==
    \/ Call
    \/ Acquire
    \/ Return

LockSpec == Init /\ [][LockNext]_vars

\* C36: history functions never deadlock: when two threads are in any two
\* of them, no thread waits for a mutex that the other holds while the
\* other waits for a mutex that it holds.
C36_HistoryCallsNeverDeadlock ==
    LET Holds(t) == {LockOrder(calls[t].op)[k] : k \in 1..calls[t].held}
        Waits(t, o) ==
            /\ calls[t].held < Len(LockOrder(calls[t].op))
            /\ LockOrder(calls[t].op)[calls[t].held + 1] \in Holds(o)
    IN \A t \in DOMAIN calls : \A o \in DOMAIN calls \ {t} :
           ~(Waits(t, o) /\ Waits(o, t))

\* ------------------------------------------------- the history under use
\* C33: remove_latest_entry is never run on an empty history: whenever a
\* frame consumes an input-required status, the history holds an entry at
\* the moment of the call.
C33_RemoveNeverOnEmptyHistory ==
    \A f \in Frames : \A e \in HistoryCalls(f) :
        e.op = "remove_latest_entry" => e.pre_history # <<>>

\* A frame consumes an input-required status and removes the only entry.
C33_Witness ==
    \E e \in HistoryCalls(IdleFrame) :
        e.op = "remove_latest_entry" /\ Len(e.pre_history) = 1

\* C34: whenever can_go_back is true, back returns an entry, and whenever
\* can_go_forward is true, forward returns an entry; a frame in which an
\* enabled back or forward is pressed navigates.
C34_EnabledButtonsNavigate ==
    /\ can_go_back(Cur) =>
           /\ back_ret(Cur) # None
           /\ Possible(Event("back", <<>>)) =>
                  update(Cur, Event("back", <<>>)).navs # <<>>
    /\ can_go_forward(Cur) =>
           /\ forward_ret(Cur) # None
           /\ Possible(Event("forward", <<>>)) =>
                  update(Cur, Event("forward", <<>>)).navs # <<>>

\* C35: every history entry stores, next to its URL, the protocol that
\* classifying that URL gives, or Plaintext.
C35_EntryProtocolClassifiesItsUrl ==
    \A i \in 1..Len(history) :
        history[i].protocol \in {ProtocolFromUrl(history[i].url), "Plaintext"}

\* C37: whenever a frame consumes a job's result, the job was started for
\* the current URL: its protocol is the classification of current_url, and
\* the handler that parses the response is the one the renderer selects.
C37_ConsumedJobIsForCurrentUrl ==
    \A f \in Frames :
        Consumes(f) =>
            /\ f.polled[1].nav_promise.url = f.current_url
            /\ f.polled[1].protocol = ProtocolFromUrl(f.current_url)
            /\ HandlerOf(f.polled[1].protocol) = HandlerOf(ProtocolFromUrl(f.current_url))

====
